---- MODULE Spec2Model ----
(***************************************************************************)
(* SOCKS5 server session of socks5-impl: the phase handles                 *)
(* IncomingConnection -> Authenticated -> {Connect, Bind, UdpAssociate},   *)
(* the handshake codec, the address codec and the stream wrapper.          *)
(***************************************************************************)
EXTENDS Integers, Sequences, FiniteSets, TLC

(* ------------------------------ bounds -------------------------------- *)

\* largest NMETHODS a modelled client offers
MaxMethods == 2
\* cap on the number of command replies written in one session
MaxReplies == 3

(* ------------------------- protocol constants ------------------------- *)

V4 == 4
V5 == 5
NoAuth == 0
UserPass == 2
NoAcceptableMethods == 255
CmdConnect == 1
CmdBind == 2
CmdUdpAssociate == 3
AtypIPv4 == 1
AtypDomain == 3
AtypIPv6 == 4
\* sub-negotiation version of the username/password method (RFC 1929)
SubVer == 1

(* ------------------------------ helpers ------------------------------- *)

Take(s, n) == SubSeq(s, 1, n)

Skip(s, n) == SubSeq(s, n + 1, Len(s))

NoAddress == [kind |-> "None", host |-> <<>>, port |-> 0]

\* a read that found fewer bytes than it needs: it waits, or fails at EOF
Short(b, eof) ==
    IF eof THEN [st |-> "err", err |-> "UnexpectedEof", n |-> Len(b)]
           ELSE [st |-> "pending", err |-> "", n |-> 0]

(* ------------------------------ Version -------------------------------- *)

Version_try_from(value) ==
    IF value = V4 THEN "V4"
    ELSE IF value = V5 THEN "V5"
    ELSE "invalid version"

\* the decoder without its `ver != Version::V5` test: SOCKS4 passes
check_version_accepts_v4(value) ==
    IF Version_try_from(value) = "invalid version" THEN "invalid version" ELSE ""

\* the version check every message decoder starts with: "" when the byte is 5
check_version(value) ==
    LET ver == Version_try_from(value) IN
    IF ver = "invalid version" THEN "invalid version"
    ELSE IF ver # "V5" THEN "Unsupported SOCKS version"
    ELSE ""

(* ------------------------- handshake messages -------------------------- *)

evaluate_method(methods, server_method) ==
    \E i \in 1..Len(methods) : methods[i] = server_method

HandshakeRequest_retrieve(b, eof) ==
    IF Len(b) < 1 THEN Short(b, eof) @@ [methods |-> <<>>]
    ELSE IF check_version(b[1]) # ""
         THEN [st |-> "err", err |-> check_version(b[1]), n |-> 1, methods |-> <<>>]
    ELSE IF Len(b) < 2 THEN Short(b, eof) @@ [methods |-> <<>>]
    ELSE IF Len(b) < 2 + b[2] THEN Short(b, eof) @@ [methods |-> <<>>]
    ELSE [st |-> "ok", err |-> "", n |-> 2 + b[2], methods |-> SubSeq(b, 3, 2 + b[2])]

HandshakeResponse_write_to_buf(method) == <<V5, method>>

(* ------------------------------ Address -------------------------------- *)

\* the length of the UTF-8 sequence a byte starts, 0 for a byte that starts none
Utf8Width(c) ==
    IF c <= 127 THEN 1
    ELSE IF c >= 194 /\ c <= 223 THEN 2
    ELSE IF c >= 224 /\ c <= 239 THEN 3
    ELSE IF c >= 240 /\ c <= 244 THEN 4
    ELSE 0

\* String::from_utf8 on the domain bytes: every byte starts a well-formed
\* sequence or is a continuation byte of one
Utf8Valid(s) ==
    LET IsCont(i) == s[i] >= 128 /\ s[i] <= 191
        Lo(c) == IF c = 224 THEN 160 ELSE IF c = 240 THEN 144 ELSE 128
        Hi(c) == IF c = 237 THEN 159 ELSE IF c = 244 THEN 143 ELSE 191
        WellFormedAt(i) ==
            LET w == Utf8Width(s[i]) IN
            /\ w > 0
            /\ i + w - 1 <= Len(s)
            /\ \A k \in 1..(w - 1) : IsCont(i + k)
            /\ w >= 2 => (s[i + 1] >= Lo(s[i]) /\ s[i + 1] <= Hi(s[i]))
        Covered(j) ==
            \E i \in 1..(j - 1) :
                /\ j - i <= 3
                /\ Utf8Width(s[i]) > j - i
                /\ \A k \in (i + 1)..j : IsCont(k)
    IN  \A i \in 1..Len(s) : IF IsCont(i) THEN Covered(i) ELSE WellFormedAt(i)

AddressType_try_from(code) ==
    IF code = AtypIPv4 THEN "IPv4"
    ELSE IF code = AtypDomain THEN "Domain"
    ELSE IF code = AtypIPv6 THEN "IPv6"
    ELSE "Unsupported address type code"

u16_from_be_bytes(hi, lo) == hi * 256 + lo

\* a conversion that takes any bytes for text
String_from_utf8_unchecked(bytes) == TRUE

\* String::from_utf8(domain_buf) is Ok
String_from_utf8(bytes) == Utf8Valid(bytes)

Address_retrieve_from_async_stream(b, eof) ==
    IF Len(b) < 1 THEN Short(b, eof) @@ [addr |-> NoAddress]
    ELSE LET t == AddressType_try_from(b[1]) IN
      IF t = "IPv4" THEN
          IF Len(b) < 7 THEN Short(b, eof) @@ [addr |-> NoAddress]
          ELSE [st |-> "ok", err |-> "", n |-> 7,
                addr |-> [kind |-> "V4", host |-> SubSeq(b, 2, 5),
                          port |-> u16_from_be_bytes(b[6], b[7])]]
      ELSE IF t = "IPv6" THEN
          IF Len(b) < 19 THEN Short(b, eof) @@ [addr |-> NoAddress]
          ELSE [st |-> "ok", err |-> "", n |-> 19,
                addr |-> [kind |-> "V6", host |-> SubSeq(b, 2, 17),
                          port |-> u16_from_be_bytes(b[18], b[19])]]
      ELSE IF t = "Domain" THEN
          IF Len(b) < 2 THEN Short(b, eof) @@ [addr |-> NoAddress]
          ELSE IF Len(b) < 2 + b[2] + 2 THEN Short(b, eof) @@ [addr |-> NoAddress]
          ELSE LET len == b[2]
                   domain_buf == SubSeq(b, 3, 2 + len)
               IN  IF ~String_from_utf8(domain_buf)
                   THEN [st |-> "err", err |-> "Invalid address encoding",
                         n |-> 4 + len, addr |-> NoAddress]
                   ELSE [st |-> "ok", err |-> "", n |-> 4 + len,
                         addr |-> [kind |-> "Domain", host |-> domain_buf,
                                   port |-> u16_from_be_bytes(b[3 + len], b[4 + len])]]
      ELSE [st |-> "err", err |-> t, n |-> 1, addr |-> NoAddress]

\* the synchronous reader: read_exact on a reader that holds b and then ends
Address_retrieve_from_stream(b) ==
    IF Len(b) < 1 THEN Short(b, TRUE) @@ [addr |-> NoAddress]
    ELSE LET t == AddressType_try_from(b[1]) IN
      IF t = "IPv4" THEN
          IF Len(b) < 1 + 6 THEN Short(b, TRUE) @@ [addr |-> NoAddress]
          ELSE LET buf == SubSeq(b, 2, 7) IN
               [st |-> "ok", err |-> "", n |-> 7,
                addr |-> [kind |-> "V4", host |-> SubSeq(buf, 1, 4),
                          port |-> u16_from_be_bytes(buf[5], buf[6])]]
      ELSE IF t = "Domain" THEN
          IF Len(b) < 2 THEN Short(b, TRUE) @@ [addr |-> NoAddress]
          ELSE LET len == b[2] IN
               IF Len(b) < 2 + len + 2 THEN Short(b, TRUE) @@ [addr |-> NoAddress]
               ELSE LET domain_buf == SubSeq(b, 3, 2 + len)
                        port_buf == SubSeq(b, 3 + len, 4 + len)
                    IN  IF ~String_from_utf8(domain_buf)
                        THEN [st |-> "err", err |-> "Invalid address encoding",
                              n |-> 4 + len, addr |-> NoAddress]
                        ELSE [st |-> "ok", err |-> "", n |-> 4 + len,
                              addr |-> [kind |-> "Domain", host |-> domain_buf,
                                        port |-> u16_from_be_bytes(port_buf[1], port_buf[2])]]
      ELSE IF t = "IPv6" THEN
          IF Len(b) < 1 + 18 THEN Short(b, TRUE) @@ [addr |-> NoAddress]
          ELSE LET buf == SubSeq(b, 2, 19) IN
               [st |-> "ok", err |-> "", n |-> 19,
                addr |-> [kind |-> "V6", host |-> SubSeq(buf, 1, 16),
                          port |-> u16_from_be_bytes(buf[17], buf[18])]]
      ELSE [st |-> "err", err |-> t, n |-> 1, addr |-> NoAddress]

put_u16(v) == <<v \div 256, v % 256>>

Address_write_to_buf(a) ==
    IF a.kind = "V4" THEN <<AtypIPv4>> \o a.host \o put_u16(a.port)
    ELSE IF a.kind = "V6" THEN <<AtypIPv6>> \o a.host \o put_u16(a.port)
    ELSE <<AtypDomain, Len(a.host) % 256>> \o a.host \o put_u16(a.port)

Address_unspecified == [kind |-> "V4", host |-> <<0, 0, 0, 0>>, port |-> 0]

(* ------------------- command request and command reply ----------------- *)

Command_try_from(code) ==
    IF code = CmdConnect THEN "Connect"
    ELSE IF code = CmdBind THEN "Bind"
    ELSE IF code = CmdUdpAssociate THEN "UdpAssociate"
    ELSE "Invalid command"

\* VER | CMD | RSV(=0) | ATYP | DST.ADDR | DST.PORT
Request_retrieve_from_async_stream(b, eof) ==
    IF Len(b) < 1 THEN Short(b, eof) @@ [command |-> "", addr |-> NoAddress]
    ELSE IF check_version(b[1]) # ""
         THEN [st |-> "err", err |-> check_version(b[1]), n |-> 1,
               command |-> "", addr |-> NoAddress]
    ELSE IF Len(b) < 3 THEN Short(b, eof) @@ [command |-> "", addr |-> NoAddress]
    ELSE IF Command_try_from(b[2]) = "Invalid command"
         THEN [st |-> "err", err |-> "Invalid command", n |-> 3,
               command |-> "", addr |-> NoAddress]
    ELSE IF b[3] # 0
         THEN [st |-> "err", err |-> "Invalid reserved byte", n |-> 3,
               command |-> "", addr |-> NoAddress]
    ELSE LET a == Address_retrieve_from_async_stream(Skip(b, 3), eof) IN
         [st |-> a.st, err |-> a.err, n |-> IF a.st = "pending" THEN 0 ELSE 3 + a.n,
          command |-> IF a.st = "ok" THEN Command_try_from(b[2]) ELSE "",
          addr |-> a.addr]

\* VER | REP | RSV(0) | ATYP | BND.ADDR | BND.PORT
Response_write_to_buf(reply, addr) == <<V5, reply, 0>> \o Address_write_to_buf(addr)

(* ------------------ username/password sub-negotiation ------------------ *)

\* the one credential the modelled credential store accepts
UserKey == [uname |-> <<117>>, passwd |-> <<112>>]

\* VER(1=0x01) | ULEN | UNAME | PLEN | PASSWD
PasswordRequest_retrieve(b, eof) ==
    LET none == [uname |-> <<>>, passwd |-> <<>>] IN
    IF Len(b) < 1 THEN Short(b, eof) @@ [key |-> none]
    ELSE IF b[1] # SubVer
         THEN [st |-> "err", err |-> "Unsupported sub-negotiation version", n |-> 1, key |-> none]
    ELSE IF Len(b) < 2 THEN Short(b, eof) @@ [key |-> none]
    ELSE IF Len(b) < 3 + b[2] THEN Short(b, eof) @@ [key |-> none]
    ELSE LET ulen == b[2]
             plen == b[3 + ulen]
         IN  IF Len(b) < 3 + ulen + plen THEN Short(b, eof) @@ [key |-> none]
             ELSE [st |-> "ok", err |-> "", n |-> 3 + ulen + plen,
                   key |-> [uname |-> SubSeq(b, 3, 2 + ulen),
                            passwd |-> SubSeq(b, 4 + ulen, 3 + ulen + plen)]]

\* 0x01 | STATUS, 0 = ok, nonzero = rejected
PasswordResponse_write_to_buf(accepted) == <<SubVer, IF accepted THEN 0 ELSE 1>>

(* ------------------------------- state --------------------------------- *)

VARIABLES
    auth_method,    \* self.auth.auth_method(): the server's configured method
    script,         \* the bytes the client will send on this connection
    delivered,      \* how many of them have arrived
    clientClosed,   \* the client has closed its side (reads hit EOF)
    rpos,           \* how many bytes the server has consumed from the stream
    handles,        \* the live handles that own the stream
    pc,             \* position of the authenticate future
    timed,          \* authenticate was called through authenticate_with_timeout
    offered,        \* methods of the handshake request that was read
    selected,       \* <<m>> once the method-selection response is written
    written,        \* bytes the server has written to the stream
    events,         \* protocol events on the stream, in order
    result,         \* outcome of the last completed operation
    output,         \* output of the auth executor returned by authenticate
    command,        \* command and address returned by wait_request
    address,
    tcp,            \* "open", "shutdown_spawned" or "closed"
    shutdowns,      \* shutdown() calls issued on the TCP stream
    replies,        \* command replies written in full
    split_on,       \* handles split() was called on
    streams,        \* the Stream wrappers of the wrapper model, by number
    codec,          \* the address being encoded and decoded in the codec model
    udp,            \* the AssociatedUdpSocket of the datagram model
    h1,             \* the HTTP message of the request, response, reader and auth models
    p2              \* the connection read by the PROXY protocol model

client == <<script, delivered, clientClosed>>

\* the state of one SOCKS5 session
session == <<auth_method, script, delivered, clientClosed, rpos, handles, pc, timed,
             offered, selected, written, events, result, output, command, address,
             tcp, shutdowns, replies, split_on>>

\* the state of the component models, which a session leaves alone
aux == <<streams, codec, udp, h1, p2>>

vars == <<session, aux>>

(* ---------------------------- client inputs ---------------------------- *)

\* 0x01 stands for the methods the server treats as opaque
MethodBytes == {NoAuth, 1, UserPass}

Offers == UNION {[1..n -> MethodBytes] : n \in 0..MaxMethods}

Handshakes ==
    {<<V5, Len(o)>> \o o : o \in Offers} \cup {<<V4, 1, NoAuth>>, <<3, 1, NoAuth>>}

AuthParts == {<<>>, <<1, 1, 117, 1, 112>>, <<1, 1, 117, 1, 113>>}

CommandRequests ==
    { <<5, 1, 0, 1, 127, 0, 0, 1, 0, 80>>,     \* CONNECT 127.0.0.1:80
      <<5, 2, 0, 3, 1, 97, 0, 80>>,            \* BIND a:80
      <<5, 3, 0, 3, 1, 97, 0, 80>>,            \* UDP ASSOCIATE a:80
      <<4, 1, 0, 3, 1, 97, 0, 80>>,            \* SOCKS4 version byte
      <<3, 1, 0, 3, 1, 97, 0, 80>>,            \* unknown version byte
      <<5, 9, 0, 3, 1, 97, 0, 80>>,            \* unknown command
      <<5, 1, 1, 3, 1, 97, 0, 80>>,            \* nonzero RSV
      <<5, 1, 0, 2, 1, 97, 0, 80>> }           \* unknown ATYP

Scripts == {h \o a \o c : h \in Handshakes, a \in AuthParts, c \in CommandRequests}

ReplyCodes == {0, 5}

ReplyAddresses == {Address_unspecified}

\* the bytes that have arrived and were not consumed yet
avail == SubSeq(script, rpos + 1, delivered)

(* ------------------------------ Init ----------------------------------- *)

Init ==
    /\ auth_method \in {NoAuth, UserPass}
    /\ script \in Scripts
    /\ delivered = 0
    /\ clientClosed = FALSE
    /\ rpos = 0
    /\ handles = {"IncomingConnection"}
    /\ pc = "idle"
    /\ timed = FALSE
    /\ offered = <<>>
    /\ selected = <<>>
    /\ written = <<>>
    /\ events = <<>>
    /\ result = [op |-> "none", err |-> ""]
    /\ output = "none"
    /\ command = ""
    /\ address = NoAddress
    /\ tcp = "open"
    /\ shutdowns = 0
    /\ replies = 0
    /\ split_on = {}
    /\ streams = <<>>
    /\ codec = <<>>
    /\ udp = <<>>
    /\ h1 = <<>>
    /\ p2 = <<>>

(* ------------------------------ client --------------------------------- *)

ClientDeliver ==
    /\ ~clientClosed
    /\ delivered < Len(script)
    /\ delivered' = delivered + 1
    /\ UNCHANGED <<aux, auth_method, script, clientClosed, rpos, handles, pc, timed, offered,
                   selected, written, events, result, output, command, address, tcp,
                   shutdowns, replies, split_on>>

ClientClose ==
    /\ ~clientClosed
    /\ clientClosed' = TRUE
    /\ UNCHANGED <<aux, auth_method, script, delivered, rpos, handles, pc, timed, offered,
                   selected, written, events, result, output, command, address, tcp,
                   shutdowns, replies, split_on>>

(* --------------------------- stream ownership -------------------------- *)

\* the method borrows the handle instead of taking it
consume_keeps(hs, h) == hs

\* a method taking self by value moves the handle out of the caller's hands
consume(hs, h) == hs \ {h}

\* Drop for Stream: with a runtime the shutdown is spawned, without one the
\* TcpStream is dropped on the spot
Stream_drop(runtime) == IF runtime THEN "shutdown_spawned" ELSE "closed"

\* dropping a bare TcpStream closes the socket
TcpStream_drop == "closed"

Ok(op) == [op |-> op, err |-> ""]

Err(op, e) == [op |-> op, err |-> e]

(* --------------------- IncomingConnection::authenticate ---------------- *)

\* the selection without the look at the configured method
evaluate_request_ignores_config(req_methods, method) == <<NoAuth>>

evaluate_request(req_methods, method) ==
    IF evaluate_method(req_methods, method) THEN <<method>> ELSE <<NoAuth>>

\* the future ends with an error: self, and the TcpStream in it, is dropped
AuthFail(e) ==
    /\ pc' = "idle"
    /\ result' = Err("authenticate", e)
    /\ tcp' = TcpStream_drop

\* authenticate(self) / authenticate_with_timeout(self, timeout) is called
authenticate(with_timeout) ==
    /\ pc = "idle"
    /\ "IncomingConnection" \in handles
    /\ handles' = consume(handles, "IncomingConnection")
    /\ pc' = "auth_read"
    /\ timed' = with_timeout
    /\ UNCHANGED <<aux, auth_method, client, rpos, offered, selected, written, events,
                   result, output, command, address, tcp, shutdowns, replies, split_on>>

\* handshake::Request::retrieve_from_async_stream(&mut self.stream).await?
authenticate_read_request ==
    /\ pc = "auth_read"
    /\ LET r == HandshakeRequest_retrieve(avail, clientClosed) IN
       /\ r.st # "pending"
       /\ rpos' = rpos + r.n
       /\ IF r.st = "ok"
          THEN /\ offered' = r.methods
               /\ events' = Append(events, "MethodRequestRead")
               /\ pc' = "auth_write"
               /\ UNCHANGED <<result, tcp>>
          ELSE /\ AuthFail(r.err)
               /\ UNCHANGED <<offered, events>>
    /\ UNCHANGED <<aux, auth_method, client, handles, timed, selected, written, output,
                   command, address, shutdowns, replies, split_on>>

\* response.write_to_async_stream(&mut self.stream).await?, in either branch
authenticate_write_response ==
    /\ pc = "auth_write"
    /\ LET sel == evaluate_request(offered, auth_method)
           method == IF sel # <<>> THEN sel[1] ELSE NoAcceptableMethods
           buf == HandshakeResponse_write_to_buf(method)
       IN  \E k \in 0..Len(buf) :
             /\ written' = written \o Take(buf, k)
             /\ IF k < Len(buf)
                THEN /\ AuthFail("write failed")
                     /\ UNCHANGED <<selected, events>>
                ELSE /\ selected' = <<method>>
                     /\ events' = Append(events, "MethodResponseWritten")
                     /\ IF sel # <<>>
                        THEN /\ pc' = "auth_exec"
                             /\ UNCHANGED <<result, tcp>>
                        ELSE AuthFail("No available handshake method provided by client")
    /\ UNCHANGED <<aux, auth_method, client, rpos, handles, timed, offered, output, command,
                   address, shutdowns, replies, split_on>>

\* AuthExecutor::execute of the configured adaptor: what it consumes, what it
\* writes and its output
AuthExecutor_execute(method, b, eof) ==
    IF method # UserPass
    THEN [st |-> "ok", n |-> 0, wr |-> <<>>, out |-> "NoAuth"]
    ELSE LET r == PasswordRequest_retrieve(b, eof) IN
         IF r.st = "pending" THEN [st |-> "pending", n |-> 0, wr |-> <<>>, out |-> ""]
         ELSE IF r.st = "err" THEN [st |-> "ok", n |-> r.n, wr |-> <<>>, out |-> "Error"]
         ELSE [st |-> "ok", n |-> r.n,
               wr |-> PasswordResponse_write_to_buf(r.key = UserKey),
               out |-> IF r.key = UserKey THEN "Accepted" ELSE "Rejected"]

\* what authenticate does with the executor's output: it is handed to the caller
\* beside the Authenticated handle, whatever it is
authenticate_returns(out) == {"Authenticated"}

\* let output = self.auth.execute(&mut self.stream).await;
\* Ok((Authenticated::new(Stream::new(self.stream)), output))
authenticate_execute ==
    /\ pc = "auth_exec"
    /\ LET x == AuthExecutor_execute(auth_method, avail, clientClosed) IN
       /\ x.st # "pending"
       /\ rpos' = rpos + x.n
       /\ \E k \in 0..Len(x.wr) :
            /\ written' = written \o Take(x.wr, k)
            /\ output' = IF k < Len(x.wr) THEN "Error" ELSE x.out
            /\ handles' = handles \cup authenticate_returns(output')
    /\ events' = Append(events, "AuthExecuted")
    /\ result' = Ok("authenticate")
    /\ pc' = "idle"
    /\ UNCHANGED <<aux, auth_method, client, timed, offered, selected, command, address, tcp,
                   shutdowns, replies, split_on>>

\* a deadline that is still armed once the future has returned
timeout_points_after_return == {"auth_read", "auth_write", "auth_exec", "idle"}

\* the states in which the deadline of tokio::time::timeout can win: the
\* authenticate future is suspended at one of its awaits
timeout_points == {"auth_read", "auth_write", "auth_exec"}

\* tokio::time::timeout elapses: the future is dropped where it is suspended
authenticate_timeout ==
    /\ timed
    /\ pc \in timeout_points
    /\ AuthFail("handshake timeout")
    /\ UNCHANGED <<aux, auth_method, client, rpos, handles, timed, offered, selected, written,
                   events, output, command, address, shutdowns, replies, split_on>>

(* ---------------------- Authenticated::wait_request -------------------- *)

ClientConnection_always_connect(cmd) == "Connect<NeedReply>"

\* the sub-handle wait_request builds for a command
ClientConnection(cmd) ==
    IF cmd = "UdpAssociate" THEN "UdpAssociate<NeedReply>"
    ELSE IF cmd = "Bind" THEN "Bind<NeedFirstReply>"
    ELSE "Connect<NeedReply>"

\* wait_request offered on the unauthenticated handle as well
wait_request_states_unauthenticated == {"IncomingConnection", "Authenticated"}

\* the handles wait_request is defined on
wait_request_states == {"Authenticated"}

wait_request ==
    /\ pc = "idle"
    /\ \E h \in handles \cap wait_request_states :
         LET r == Request_retrieve_from_async_stream(avail, clientClosed) IN
         /\ r.st # "pending"
         /\ rpos' = rpos + r.n
         /\ IF r.st = "ok"
            THEN /\ handles' = consume(handles, h) \cup {ClientConnection(r.command)}
                 /\ command' = r.command
                 /\ address' = r.addr
                 /\ events' = Append(events, "CommandRequestRead")
                 /\ result' = Ok("wait_request")
                 /\ tcp' = tcp
            ELSE /\ handles' = consume(handles, h)
                 /\ result' = Err("wait_request", r.err)
                 /\ tcp' = Stream_drop(TRUE)
                 /\ UNCHANGED <<command, address, events>>
    /\ UNCHANGED <<aux, auth_method, client, pc, timed, offered, selected, written, output,
                   shutdowns, replies, split_on>>

(* ------------------------------- reply --------------------------------- *)

\* resp.write_to_async_stream(..).await on handle h: k bytes of the reply get
\* out; in full, the handle becomes next; short of that, the error is returned
\* with the stream (stream_back) or the stream is dropped with self
write_reply(h, next, stream_back, reply, addr) ==
    LET buf == Response_write_to_buf(reply, addr) IN
    \E k \in 0..Len(buf) :
      /\ written' = written \o Take(buf, k)
      /\ IF k = Len(buf)
         THEN /\ handles' = consume(handles, h) \cup {next}
              /\ replies' = replies + 1
              /\ events' = Append(events, "ReplyWritten")
              /\ result' = Ok("reply")
              /\ tcp' = tcp
         ELSE /\ handles' = consume(handles, h) \cup (IF stream_back THEN {"Stream"} ELSE {})
              /\ result' = Err("reply", "write failed")
              /\ tcp' = IF stream_back THEN tcp ELSE Stream_drop(TRUE)
              /\ UNCHANGED <<replies, events>>
      /\ UNCHANGED <<aux, auth_method, client, rpos, pc, timed, offered, selected, output,
                     command, address, shutdowns, split_on>>

\* impl Connect<NeedReply>
Connect_reply_states == {"Connect<NeedReply>"}

Connect_reply_returns == "Connect<Ready>"

Connect_reply ==
    /\ pc = "idle"
    /\ \E h \in handles \cap Connect_reply_states, reply \in ReplyCodes, addr \in ReplyAddresses :
         write_reply(h, Connect_reply_returns, FALSE, reply, addr)

\* the first reply handing out the Ready handle
Bind_first_reply_skips_second == "Bind<Ready>"

\* impl Bind<NeedFirstReply>
Bind_first_reply_returns == "Bind<NeedSecondReply>"

Bind_first_reply ==
    /\ pc = "idle"
    /\ "Bind<NeedFirstReply>" \in handles
    /\ \E reply \in ReplyCodes, addr \in ReplyAddresses :
         write_reply("Bind<NeedFirstReply>", Bind_first_reply_returns, FALSE, reply, addr)

\* impl Bind<NeedSecondReply>
Bind_second_reply_returns == "Bind<Ready>"

Bind_second_reply ==
    /\ pc = "idle"
    /\ "Bind<NeedSecondReply>" \in handles
    /\ \E reply \in ReplyCodes, addr \in ReplyAddresses :
         write_reply("Bind<NeedSecondReply>", Bind_second_reply_returns, TRUE, reply, addr)

\* impl<S: Default> UdpAssociate<S>: NeedReply and Ready both implement Default
UdpAssociate_reply_states == {"UdpAssociate<NeedReply>", "UdpAssociate<Ready>"}

UdpAssociate_reply_returns == "UdpAssociate<Ready>"

UdpAssociate_reply ==
    /\ pc = "idle"
    /\ replies < MaxReplies
    /\ \E h \in handles \cap UdpAssociate_reply_states, reply \in ReplyCodes, addr \in ReplyAddresses :
         write_reply(h, UdpAssociate_reply_returns, FALSE, reply, addr)

(* ------------------------------- split --------------------------------- *)

\* impl Connect<Ready> and impl Bind<Ready>: split(&mut self)
split_states == {"Connect<Ready>", "Bind<Ready>"}

split ==
    /\ pc = "idle"
    /\ \E h \in handles \cap split_states : split_on' = split_on \cup {h}
    /\ UNCHANGED <<aux, auth_method, client, rpos, handles, pc, timed, offered, selected,
                   written, events, result, output, command, address, tcp, shutdowns,
                   replies>>

(* ------------------------ conversions and drop ------------------------- *)

\* From<Authenticated>, From<Connect<S>>, From<Bind<S>>, From<UdpAssociate<S>> for Stream
into_Stream ==
    /\ pc = "idle"
    /\ \E h \in handles \ {"IncomingConnection", "Stream"} :
         handles' = consume(handles, h) \cup {"Stream"}
    /\ UNCHANGED <<aux, auth_method, client, rpos, pc, timed, offered, selected, written,
                   events, result, output, command, address, tcp, shutdowns, replies,
                   split_on>>

\* the caller lets go of the handle it holds
drop_handle ==
    /\ pc = "idle"
    /\ \E h \in handles, runtime \in BOOLEAN :
         /\ handles' = consume(handles, h)
         /\ tcp' = IF h = "IncomingConnection" THEN TcpStream_drop ELSE Stream_drop(runtime)
    /\ UNCHANGED <<aux, auth_method, client, rpos, pc, timed, offered, selected, written,
                   events, result, output, command, address, shutdowns, replies, split_on>>

\* the task spawned by Drop for Stream: stream.shutdown().await, then the
\* TcpStream it owns is dropped
shutdown_task ==
    /\ tcp = "shutdown_spawned"
    /\ shutdowns' = shutdowns + 1
    /\ tcp' = "closed"
    /\ UNCHANGED <<aux, auth_method, client, rpos, handles, pc, timed, offered, selected,
                   written, events, result, output, command, address, replies, split_on>>

(* ---------------------------- specification ---------------------------- *)

Next ==
    \/ ClientDeliver
    \/ ClientClose
    \/ \E with_timeout \in BOOLEAN : authenticate(with_timeout)
    \/ authenticate_read_request
    \/ authenticate_write_response
    \/ authenticate_execute
    \/ authenticate_timeout
    \/ wait_request
    \/ Connect_reply
    \/ Bind_first_reply
    \/ Bind_second_reply
    \/ UdpAssociate_reply
    \/ split
    \/ into_Stream
    \/ drop_handle
    \/ shutdown_task

Spec == Init /\ [][Next]_vars

(* ------------------------------ properties ----------------------------- *)

EventOrder ==
    <<"MethodRequestRead", "MethodResponseWritten", "AuthExecuted", "CommandRequestRead">>

\* C1: the events on a stream occur in the order method-selection request read,
\* method-selection response written, authentication exchange, command request
\* read, command replies written; none is skipped and none comes early.
C1_PhaseOrder ==
    \A i \in 1..Len(events) :
        events[i] = IF i <= Len(EventOrder) THEN EventOrder[i] ELSE "ReplyWritten"

\* a whole session up to its first command reply
C1_Witness == Len(events) = 5 /\ events[5] = "ReplyWritten" /\ replies = 1

\* C2 (as claimed): once the username/password method was selected and its
\* credential check has rejected the client, there is no Authenticated handle and no command request
\* of that session is read.
C2_RejectedDoesNotAdvance ==
    (selected = <<UserPass>> /\ output = "Rejected")
        => ("Authenticated" \notin handles /\ command = "")

\* C3 (as claimed): when the offer holds neither the configured method nor NoAuth,
\* the response written is 05 FF, authenticate fails with the unsupported-method
\* error and no Authenticated handle exists.
C3_NoAcceptableMethod ==
    ( /\ selected # <<>>
      /\ auth_method # NoAuth
      /\ ~evaluate_method(offered, auth_method)
      /\ ~evaluate_method(offered, NoAuth) )
        => /\ Take(written, 2) = <<V5, NoAcceptableMethods>>
           /\ result = Err("authenticate", "No available handshake method provided by client")
           /\ "Authenticated" \notin handles

\* C4: when the offer holds the configured method, that method is selected and the
\* method-selection response is the two bytes 05 <configured method>.
C4_ConfiguredMethodSelected ==
    (selected # <<>> /\ evaluate_method(offered, auth_method))
        => (selected = <<auth_method>> /\ Take(written, 2) = <<V5, auth_method>>)

\* the offer 05 01 00 to a server configured with NoAuth is answered 05 00
C4_Witness ==
    /\ auth_method = NoAuth
    /\ Take(script, 3) = <<5, 1, 0>>
    /\ selected = <<NoAuth>>
    /\ written = <<5, 0>>

VersionErrors == {"Unsupported SOCKS version", "invalid version"}

\* the next read is the version byte of a message
MessageStart == pc = "auth_read" \/ (pc = "idle" /\ "Authenticated" \in handles)

TimedOut == result = Err("authenticate", "handshake timeout")

\* C6: a handshake cut by the timeout ends with the handshake-timeout error and no
\* handle, and nothing is read or written on the stream afterwards; a handshake
\* that has returned is never turned into a timeout.
C6_HandshakeTimeout ==
    /\ [](TimedOut => (handles = {} /\ pc = "idle"))
    /\ [][TimedOut => ( /\ rpos' = rpos
                        /\ written' = written
                        /\ handles' = handles
                        /\ result' = result )]_vars
    /\ [][(pc = "idle" /\ result.op # "none" /\ ~TimedOut) => ~TimedOut']_vars

\* the deadline passes after the method-selection response, during the
\* username/password exchange
C6_Witness == TimedOut /\ selected = <<UserPass>> /\ written = <<5, 2>> /\ tcp = "closed"

\* C7: at most one handle owns the stream, and while authenticate is running
\* there is none to start another operation with.
C7_SingleOwner ==
    /\ Cardinality(handles) <= 1
    /\ pc # "idle" => handles = {}

\* the last handle of a BIND session, after four transitions
C7_Witness == handles = {"Bind<Ready>"}

\* C8: CONNECT is Ready after exactly one reply and takes no further one, BIND is
\* NeedSecondReply after one and Ready after exactly two, and split is called on
\* Ready handles only.
C8_RepliesBeforeReady ==
    /\ handles \cap {"Connect<NeedReply>", "Bind<NeedFirstReply>"} # {} => replies = 0
    /\ handles \cap {"Connect<Ready>", "Bind<NeedSecondReply>"} # {} => replies = 1
    /\ "Bind<Ready>" \in handles => replies = 2
    /\ command = "Connect" => replies <= 1
    /\ command = "Bind" => replies <= 2
    /\ split_on \subseteq {"Connect<Ready>", "Bind<Ready>"}

\* a BIND session that was split after its second reply
C8_Witness == handles = {"Bind<Ready>"} /\ replies = 2 /\ split_on = {"Bind<Ready>"}

\* C9 (as claimed): at most one command reply is written on a UDP-ASSOCIATE
\* session.
C9_UdpSingleReply == command = "UdpAssociate" => replies <= 1

\* C10 (as claimed): after authenticate has failed on a bad version, a truncated
\* request or the lack of an acceptable method, the TCP stream is still open.
C10_StreamOpenAfterFailure ==
    ( /\ result.op = "authenticate"
      /\ result.err \in VersionErrors
                        \cup {"UnexpectedEof", "No available handshake method provided by client"} )
        => tcp = "open"

\* the errors of a command request that arrived whole and is not acceptable
InvalidRequestErrors ==
    VersionErrors \cup {"Invalid command", "Invalid reserved byte",
                        "Unsupported address type code"}

\* C11 (as claimed): after wait_request has failed on an invalid command request
\* the caller holds the stream again, the TCP stream is open and no shutdown has
\* been scheduled or issued on it.
C11_StreamReturnedOnBadRequest ==
    (result.op = "wait_request" /\ result.err \in InvalidRequestErrors)
        => ("Stream" \in handles /\ tcp = "open" /\ shutdowns = 0)

\* C12 (as claimed): after the write of a command reply has failed, whichever
\* sub-handle it was written through, the caller holds the original stream, still
\* open, and no next-state handle.
C12_StreamReturnedOnReplyFailure ==
    result = Err("reply", "write failed") => (handles = {"Stream"} /\ tcp = "open")

(* ======================= the Stream wrapper ============================ *)

MaxWrappers == 2

Wrappers == 1..MaxWrappers

\* the wrapper of the stream crate, whose drop spawns the shutdown, and the one
\* of src/server/connection/stream.rs, whose drop runs it under block_in_place
Variants == {"spawn", "block_in_place"}

\* what Handle::try_current() / Handle::current() finds at the place of the drop
Runtimes == {"none", "current_thread", "multi_thread"}

\* no session is running
NoSession ==
    /\ auth_method = NoAuth /\ script = <<>> /\ delivered = 0 /\ clientClosed = FALSE
    /\ rpos = 0 /\ handles = {} /\ pc = "idle" /\ timed = FALSE /\ offered = <<>>
    /\ selected = <<>> /\ written = <<>> /\ events = <<>>
    /\ result = [op |-> "none", err |-> ""] /\ output = "none" /\ command = ""
    /\ address = NoAddress /\ tcp = "open" /\ shutdowns = 0 /\ replies = 0
    /\ split_on = {}

\* a constructor that leaves the Option empty
Stream_new_empty(variant) ==
    [variant |-> variant, wrapper |-> "live", stream |-> "None", owner |-> "wrapper",
     sock |-> "open", explicit |-> FALSE, issued |-> 0, extracted |-> FALSE,
     closed_by |-> "", dropper |-> "running", access |-> ""]

\* Stream::new(stream): the wrapper owns an open TcpStream. wrapper is the
\* Stream value, sock the socket, owner who holds the TcpStream, issued the
\* shutdown() calls made by drop or by the task it spawned, dropper the task
\* that dropped the wrapper, access how the last look at the inner stream ended
Stream_new(variant) ==
    [variant |-> variant, wrapper |-> "live", stream |-> "Some", owner |-> "wrapper",
     sock |-> "open", explicit |-> FALSE, issued |-> 0, extracted |-> FALSE,
     closed_by |-> "", dropper |-> "running", access |-> ""]

\* get_stream / get_stream_mut, and the take().expect of into_inner
get_stream(s) == IF s.stream = "Some" THEN "ok" ELSE "Stream has been consumed"

\* what the wrapper model leaves alone
beside_streams == <<session, codec, udp, h1, p2>>

StreamInit ==
    /\ NoSession
    /\ codec = <<>>
    /\ udp = <<>>
    /\ h1 = <<>>
    /\ p2 = <<>>
    /\ streams \in [Wrappers -> {Stream_new(v) : v \in Variants}]

\* a take that leaves the value in the Option
Option_take_leaves(opt) == opt

\* Option::take: what stays in the Option
Option_take(opt) == "None"

\* impl Drop for Stream, stream crate: the stream is taken; with a runtime its
\* shutdown is spawned, without one the TcpStream is dropped here
Drop_for_Stream(s, runtime) ==
    IF s.stream = "Some"
    THEN IF runtime # "none"
         THEN [s EXCEPT !.wrapper = "gone", !.stream = Option_take(@), !.owner = "task"]
         ELSE [s EXCEPT !.wrapper = "gone", !.stream = Option_take(@), !.owner = "nobody",
                        !.sock = "closed", !.closed_by = "drop"]
    ELSE [s EXCEPT !.wrapper = "gone"]

\* impl Drop for Stream, src/server/connection/stream.rs: block_in_place and
\* block_on hold the dropping task until the shutdown is done; they panic where
\* there is no multi-threaded runtime, and the unwinding drops the TcpStream
Drop_block_in_place(s, runtime) ==
    IF runtime = "multi_thread"
    THEN [s EXCEPT !.wrapper = "dropping", !.dropper = "blocked"]
    ELSE [s EXCEPT !.wrapper = "gone", !.owner = "nobody", !.sock = "closed",
                   !.closed_by = "drop", !.dropper = "panicked"]

\* Stream::shutdown(&mut self), called by the owner of the wrapper
Stream_shutdown(w) ==
    /\ streams[w].wrapper = "live"
    /\ ~streams[w].explicit
    /\ streams' = [streams EXCEPT ![w].access = get_stream(streams[w]),
                                  ![w].explicit = (get_stream(streams[w]) = "ok")]
    /\ UNCHANGED beside_streams

\* read, write, flush, the address and socket-option getters and setters,
\* deref: each one looks at the inner stream through get_stream or
\* get_stream_mut
Stream_access(w) ==
    /\ streams[w].wrapper = "live"
    /\ streams' = [streams EXCEPT ![w].access = get_stream(streams[w])]
    /\ UNCHANGED beside_streams

\* Stream::into_inner(mut self): the TcpStream goes to the caller, and self
\* is dropped as the method returns
Stream_into_inner(w) ==
    /\ streams[w].wrapper = "live"
    /\ streams[w].variant = "spawn"
    /\ \E runtime \in Runtimes :
         streams' = [streams EXCEPT ![w] =
                        IF get_stream(@) = "ok"
                        THEN Drop_for_Stream([@ EXCEPT !.access = "ok",
                                                       !.stream = Option_take(@),
                                                       !.owner = "caller",
                                                       !.extracted = TRUE], runtime)
                        ELSE Drop_for_Stream([@ EXCEPT !.access = get_stream(streams[w])],
                                             runtime)]
    /\ UNCHANGED beside_streams

\* the wrapper goes out of scope
Stream_dropped(w) ==
    /\ streams[w].wrapper = "live"
    /\ \E runtime \in Runtimes :
         streams' = [streams EXCEPT ![w] =
                        IF @.variant = "spawn" THEN Drop_for_Stream(@, runtime)
                        ELSE Drop_block_in_place(@, runtime)]
    /\ UNCHANGED beside_streams

\* the task spawned by drop runs: stream.shutdown().await, then the TcpStream
\* it owns is dropped
spawned_shutdown(w) ==
    /\ streams[w].owner = "task"
    /\ streams' = [streams EXCEPT ![w].issued = @ + 1, ![w].owner = "nobody",
                                  ![w].sock = "closed", ![w].closed_by = "task"]
    /\ UNCHANGED beside_streams

\* the shutdown awaited inside block_on completes and drop returns
block_on_shutdown(w) ==
    /\ streams[w].wrapper = "dropping"
    /\ streams' = [streams EXCEPT ![w].issued = @ + 1, ![w].wrapper = "gone",
                                  ![w].owner = "nobody", ![w].sock = "closed",
                                  ![w].closed_by = "drop", ![w].dropper = "running"]
    /\ UNCHANGED beside_streams

\* the caller drops the TcpStream it got from into_inner
TcpStream_dropped(w) ==
    /\ streams[w].owner = "caller"
    /\ streams' = [streams EXCEPT ![w].owner = "nobody", ![w].sock = "closed",
                                  ![w].closed_by = "caller"]
    /\ UNCHANGED beside_streams

StreamNext ==
    \E w \in Wrappers :
        \/ Stream_shutdown(w)
        \/ Stream_access(w)
        \/ Stream_into_inner(w)
        \/ Stream_dropped(w)
        \/ spawned_shutdown(w)
        \/ block_on_shutdown(w)
        \/ TcpStream_dropped(w)

StreamSpec == StreamInit /\ [][StreamNext]_vars

\* C13 (as claimed): the task that drops a wrapper is never held up by the drop.
C13_DropNeverBlocks == \A w \in Wrappers : streams[w].dropper # "blocked"

\* C14: once into_inner has handed out the TcpStream, no shutdown is spawned or
\* issued on it by the wrapper, and it stays open until the caller closes it.
C14_ExtractedStreamLeftAlone ==
    \A w \in Wrappers :
        streams[w].extracted =>
            /\ streams[w].issued = 0
            /\ streams[w].owner \in {"caller", "nobody"}
            /\ streams[w].closed_by \in {"", "caller"}
            /\ streams[w].owner = "caller" => streams[w].sock = "open"

\* one stream was extracted and is open in the caller's hands after its wrapper
\* is gone, while a dropped wrapper had its stream shut down by the spawned task
C14_Witness ==
    \E w, x \in Wrappers :
        /\ streams[w].extracted /\ streams[w].wrapper = "gone"
        /\ streams[w].owner = "caller" /\ streams[w].sock = "open"
        /\ ~streams[x].extracted /\ streams[x].closed_by = "task" /\ streams[x].issued = 1

(* ========================= the address codec =========================== *)

MaxName == 2

\* u8::MAX, the longest name the length byte can announce
MaxDomainLen == 255

\* ASCII 'a', the two bytes of U+00E9, and a byte no UTF-8 text holds
NameBytes == {97, 195, 169, 255}

Ports == {0, 80, 65535}

Repeat(c, n) == [i \in 1..n |-> c]

ByteStrings == UNION {[1..n -> NameBytes] : n \in 0..MaxName}

\* the names a Box<str> can hold: any valid UTF-8, of any length
Names ==
    {name \in ByteStrings : Utf8Valid(name)}
        \cup {Repeat(97, MaxDomainLen), Repeat(97, MaxDomainLen + 1)}

\* Address::SocketAddress and Address::DomainAddress values
Addresses ==
    {[kind |-> "V4", host |-> h, port |-> p] :
        h \in {<<0, 0, 0, 0>>, <<127, 0, 0, 1>>, <<255, 255, 255, 255>>}, p \in Ports}
    \cup {[kind |-> "V6", host |-> Repeat(0, 15) \o <<1>>, port |-> p] : p \in Ports}
    \cup {[kind |-> "Domain", host |-> name, port |-> p] : name \in Names, p \in Ports}

\* bytes a peer can put where an address is expected
RawAddresses ==
    {<<AtypDomain, Len(name)>> \o name \o put_u16(p) : name \in ByteStrings, p \in {80}}
        \cup {<<>>, <<2, 0>>, <<AtypIPv4, 127, 0>>, <<AtypDomain, 2, 97>>,
              <<AtypIPv6>> \o Repeat(0, 17)}

NoResult == [st |-> "none", err |-> "", n |-> 0, addr |-> NoAddress]

\* what the codec model leaves alone
beside_codec == <<session, streams, udp, h1, p2>>

\* A is the address to encode and wire the bytes to decode; sync and async hold
\* what the two readers returned
CodecInit ==
    /\ NoSession
    /\ streams = <<>>
    /\ udp = <<>>
    /\ h1 = <<>>
    /\ p2 = <<>>
    /\ \/ \E a \in Addresses :
            codec = [A |-> a, wire |-> <<>>, on_wire |-> FALSE,
                     sync |-> NoResult, async |-> NoResult]
       \/ \E w \in RawAddresses :
            codec = [A |-> NoAddress, wire |-> w, on_wire |-> TRUE,
                     sync |-> NoResult, async |-> NoResult]

\* From<Address> for Vec<u8>: addr.write_to_buf(&mut buf)
Address_encode ==
    /\ ~codec.on_wire
    /\ codec' = [codec EXCEPT !.wire = Address_write_to_buf(codec.A), !.on_wire = TRUE]
    /\ UNCHANGED beside_codec

\* TryFrom<&[u8]> for Address: retrieve_from_stream over a Cursor
Address_decode_sync ==
    /\ codec.on_wire
    /\ codec.sync = NoResult
    /\ codec' = [codec EXCEPT !.sync = Address_retrieve_from_stream(codec.wire)]
    /\ UNCHANGED beside_codec

\* retrieve_from_async_stream over a reader that holds the bytes and then ends
Address_decode_async ==
    /\ codec.on_wire
    /\ codec.async = NoResult
    /\ codec' = [codec EXCEPT !.async = Address_retrieve_from_async_stream(codec.wire, TRUE)]
    /\ UNCHANGED beside_codec

CodecNext ==
    \/ Address_encode
    \/ Address_decode_sync
    \/ Address_decode_async

CodecSpec == CodecInit /\ [][CodecNext]_vars

\* the results the two readers have returned so far
Decoded == {codec.sync, codec.async} \ {NoResult}

\* C15 (as claimed): whatever Address was encoded, each reader returns that
\* Address from the encoded bytes.
C15_AddressRoundTrip ==
    codec.A # NoAddress =>
        \A r \in Decoded : r.st = "ok" /\ r.addr = codec.A

\* the bytes decoded are a whole Domain address: 0x03, a length byte, that many
\* name bytes and a port
DomainOnWire ==
    /\ Len(codec.wire) >= 2
    /\ codec.wire[1] = AtypDomain
    /\ Len(codec.wire) >= 2 + codec.wire[2] + 2

NameOnWire == SubSeq(codec.wire, 3, 2 + codec.wire[2])

\* C16 (as claimed): a Domain address with length byte 0 is an error for both
\* readers, and no reader returns a Domain address with an empty name.
C16_EmptyDomainRejected ==
    \A r \in Decoded :
        /\ (DomainOnWire /\ codec.wire[2] = 0) => r.st = "err"
        /\ ~(r.st = "ok" /\ r.addr.kind = "Domain" /\ r.addr.host = <<>>)

\* C17: both readers answer name bytes that are not valid UTF-8 with the
\* invalid-encoding error, and a Domain address they return holds valid UTF-8 of
\* at most 255 bytes.
C17_DomainIsUtf8 ==
    \A r \in Decoded :
        /\ (DomainOnWire /\ ~Utf8Valid(NameOnWire))
              => (r.st = "err" /\ r.err = "Invalid address encoding")
        /\ (r.st = "ok" /\ r.addr.kind = "Domain")
              => (Utf8Valid(r.addr.host) /\ Len(r.addr.host) <= MaxDomainLen)

\* 03 02 C3 FF 00 50, a two-byte sequence cut by a byte that continues nothing,
\* was refused by both readers
C17_Witness ==
    /\ codec.wire = <<AtypDomain, 2, 195, 255, 0, 80>>
    /\ codec.sync.err = "Invalid address encoding"
    /\ codec.async.err = "Invalid address encoding"

(* ==================== the associated UDP socket ======================== *)

MaxDatagrams == 2

\* Address::len
Address_len(a) ==
    IF a.kind = "V4" THEN 1 + 4 + 2
    ELSE IF a.kind = "V6" THEN 1 + 16 + 2
    ELSE 1 + 1 + Len(a.host) + 2

\* UdpHeader::write_to_buf: RSV (two zero bytes) | FRAG | ATYP | ADDR | PORT
UdpHeader_write_to_buf(frag, a) == <<0, 0, frag>> \o Address_write_to_buf(a)

\* UdpHeader::retrieve_from_async_stream over the bytes of one datagram
UdpHeader_retrieve_from_async_stream(b) ==
    IF Len(b) < 3
    THEN [st |-> "err", frag |-> 0, addr |-> NoAddress]
    ELSE LET a == Address_retrieve_from_async_stream(Skip(b, 3), TRUE) IN
         [st |-> a.st, frag |-> IF a.st = "ok" THEN b[3] ELSE 0, addr |-> a.addr]

\* what socket.recv puts into a buffer of max bytes: the datagram, or its head
recv_into(bytes, max) == IF Len(bytes) <= max THEN bytes ELSE Take(bytes, max)

\* the values buf_size takes
PacketSizes == {12, 300}

\* the (pkt, frag) pairs handed to send: an empty standalone packet and a
\* fragment with id 7
Packets == {<<<<>>, 0>>, <<<<1, 2>>, 7>>}

\* the addresses the relay puts into headers
FromAddresses ==
    {[kind |-> "V4", host |-> <<127, 0, 0, 1>>, port |-> 80],
     [kind |-> "Domain", host |-> <<97>>, port |-> 80],
     [kind |-> "Domain", host |-> Repeat(97, MaxDomainLen + 1), port |-> 80]}

\* datagrams of peers that do not speak the framing: too short for a header, an
\* unknown ATYP, a name that is not UTF-8
RawDatagrams == {<<0, 0>>, <<0, 0, 0, 2, 0, 80>>, <<0, 0, 0, AtypDomain, 1, 255, 0, 80>>}

NoCall ==
    [op |-> "none", st |-> "idle", max |-> 0, skipped |-> FALSE, pkt |-> <<>>,
     frag |-> 0, addr |-> NoAddress, dgram |-> <<>>]

\* what the datagram model leaves alone
beside_udp == <<session, streams, codec, h1, p2>>

\* AssociatedUdpSocket::from((socket, buf_size)): inbox holds the datagrams
\* waiting in the socket, call the recv / recv_from call in progress or returned
\* (skipped: it has discarded a datagram)
UdpInit ==
    /\ NoSession
    /\ streams = <<>>
    /\ codec = <<>>
    /\ h1 = <<>>
    /\ p2 = <<>>
    /\ \E size \in PacketSizes :
         udp = [buf_size |-> size, inbox |-> <<>>, call |-> NoCall, io_error |-> FALSE]

\* set_max_packet_size(size)
set_max_packet_size ==
    /\ \E size \in PacketSizes : udp' = [udp EXCEPT !.buf_size = size]
    /\ UNCHANGED beside_udp

\* send / send_to of the socket at the other end: header and pkt in one
\* datagram, which arrives in this socket
send ==
    /\ Len(udp.inbox) < MaxDatagrams
    /\ \E p \in Packets, from_addr \in FromAddresses :
         LET pkt == p[1]
             frag == p[2]
         IN  udp' = [udp EXCEPT !.inbox =
                        Append(@, [bytes |-> UdpHeader_write_to_buf(frag, from_addr) \o pkt,
                                   sent |-> <<pkt, frag, from_addr>>])]
    /\ UNCHANGED beside_udp

\* a datagram of some other sender arrives
arrive ==
    /\ Len(udp.inbox) < MaxDatagrams
    /\ \E d \in RawDatagrams :
         udp' = [udp EXCEPT !.inbox = Append(@, [bytes |-> d, sent |-> <<>>])]
    /\ UNCHANGED beside_udp

\* recv() / recv_from() is called: buf_size is loaded and the buffer allocated
recv ==
    /\ udp.call.st # "receiving"
    /\ \E op \in {"recv", "recv_from"} :
         udp' = [udp EXCEPT !.call = [NoCall EXCEPT !.op = op, !.st = "receiving",
                                                    !.max = udp.buf_size],
                            !.io_error = FALSE]
    /\ UNCHANGED beside_udp

\* a parse failure ends the call
on_parse_failure_returns == "err"

\* the state of the call after a datagram whose header did not parse: the
\* buffer is reset and the loop goes on
on_parse_failure == "receiving"

\* one turn of the loop: socket.recv(&mut buf) returns the next datagram, cut
\* to the buffer; its header is parsed and the rest returned
recv_loop ==
    /\ udp.call.st = "receiving"
    /\ udp.inbox # <<>>
    /\ LET d == Head(udp.inbox)
           pkt == recv_into(d.bytes, udp.call.max)
           header == UdpHeader_retrieve_from_async_stream(pkt)
       IN  udp' = [udp EXCEPT
                     !.inbox = Tail(@),
                     !.call = IF header.st = "ok"
                              THEN [@ EXCEPT !.st = "ok",
                                             !.pkt = Skip(pkt, 3 + Address_len(header.addr)),
                                             !.frag = header.frag,
                                             !.addr = header.addr,
                                             !.dgram = d]
                              ELSE [@ EXCEPT !.st = on_parse_failure, !.skipped = TRUE]]
    /\ UNCHANGED beside_udp

\* socket.recv(&mut buf).await? returns an error
recv_io_error ==
    /\ udp.call.st = "receiving"
    /\ udp' = [udp EXCEPT !.call.st = "err", !.io_error = TRUE]
    /\ UNCHANGED beside_udp

UdpNext ==
    \/ set_max_packet_size
    \/ send
    \/ arrive
    \/ recv
    \/ recv_loop
    \/ recv_io_error

UdpSpec == UdpInit /\ [][UdpNext]_vars

\* the runtime polls a pending recv when a datagram is in the socket
FairUdpSpec == UdpSpec /\ WF_vars(recv_loop)

\* C18 (as claimed): a datagram made by send(P, f, A) that fits the receive
\* buffer is returned by recv as exactly (P, f, A), nonzero fragment ids too.
C18_SendRecvRoundTrip ==
    ( /\ udp.call.st = "ok"
      /\ udp.call.dgram.sent # <<>>
      /\ Len(udp.call.dgram.bytes) <= udp.call.max )
        => <<udp.call.pkt, udp.call.frag, udp.call.addr>> = udp.call.dgram.sent

\* the header of the datagram parses from what a buffer of max bytes receives
WellFormed(d, max) ==
    UdpHeader_retrieve_from_async_stream(recv_into(d.bytes, max)).st = "ok"

\* C19: recv and recv_from end with an error only on a socket I/O error; each
\* datagram they take from the socket is returned if its header parses and is
\* otherwise discarded with the call still receiving; and a call that has a
\* well-formed datagram waiting for it returns.
C19_MalformedSkipped ==
    /\ [](udp.call.st = "err" => udp.io_error)
    /\ [][ ( /\ udp.call.st = "receiving"
             /\ udp.inbox # <<>>
             /\ udp'.inbox = Tail(udp.inbox) )
              => IF WellFormed(Head(udp.inbox), udp.call.max)
                 THEN udp'.call.st = "ok" /\ udp'.call.dgram = Head(udp.inbox)
                 ELSE udp'.call = [udp.call EXCEPT !.skipped = TRUE] ]_vars
    /\ ( /\ udp.call.st = "receiving"
         /\ \E i \in 1..Len(udp.inbox) : WellFormed(udp.inbox[i], udp.call.max) )
          ~> udp.call.st \in {"ok", "err"}

\* a call that discarded a datagram and then returned a fragment sent with id 7
C19_Witness ==
    /\ udp.call.st = "ok"
    /\ udp.call.skipped
    /\ udp.call.frag = 7
    /\ udp.call.dgram.sent # <<>>

(* ========================= the HTTP request ============================ *)

\* text is a sequence of lexical atoms: a method, a path, a header name, ...

MaxHeaders == 2

\* the size of the header array handed to httparse
MaxParsedHeaders == 64

SP == " "

\* the end of the request line
VersionLine == " HTTP/1.1\r\n"

Colon == ": "

CRLF == "\r\n"

NoUri == [scheme |-> "", authority |-> "", path |-> "", query |-> ""]

Paths == {"/", "/api"}

\* http::Uri values in origin-form, with and without a query, and in absolute form
Uris ==
    {[scheme |-> "", authority |-> "", path |-> "/", query |-> ""],
     [scheme |-> "", authority |-> "", path |-> "/api", query |-> ""],
     [scheme |-> "", authority |-> "", path |-> "/api", query |-> "q=1"],
     [scheme |-> "http", authority |-> "example.com", path |-> "/api", query |-> ""]}

Methods == {"GET", "POST", "CONNECT"}

\* Uri::path
Uri_path(u) == u.path

\* str::parse::<Uri> on a request target
Uri_from_str(t) ==
    LET PathAndQuery(r) ==
            IF Len(r) = 1 /\ r[1] \in Paths
            THEN [st |-> "ok", path |-> r[1], query |-> ""]
            ELSE IF Len(r) = 3 /\ r[1] \in Paths /\ r[2] = "?"
            THEN [st |-> "ok", path |-> r[1], query |-> r[3]]
            ELSE [st |-> "err", path |-> "", query |-> ""]
        absolute == Len(t) >= 3 /\ t[2] = "://"
        pq == PathAndQuery(IF absolute THEN SubSeq(t, 4, Len(t)) ELSE t)
    IN  IF pq.st # "ok" THEN [st |-> "err", uri |-> NoUri]
        ELSE [st |-> "ok",
              uri |-> [scheme |-> IF absolute THEN t[1] ELSE "",
                       authority |-> IF absolute THEN t[3] ELSE "",
                       path |-> pq.path, query |-> pq.query]]

\* HeaderName::from_bytes: <<>> for a name that is no token, else the name in
\* lower case
HeaderName_from_bytes(name) ==
    IF name \in {"Host", "host"} THEN <<"host">>
    ELSE IF name \in {"Content-Type", "content-type"} THEN <<"content-type">>
    ELSE IF name \in {"WWW-Authenticate", "www-authenticate"} THEN <<"www-authenticate">>
    ELSE IF name \in {"Proxy-Authenticate", "proxy-authenticate"}
         THEN <<"proxy-authenticate">>
    ELSE <<>>

\* realms a caller may pass to unauthorized and proxy_auth_required
Realms == {"Proxy", "Protected Area", "", "two\nlines"}

\* format!("Basic realm=\"{}\"", realm)
BasicRealm(realm) == "Basic realm=\"" \o realm \o "\""

\* the values of this model that hold a control character
WithControl == {"two\nlines", BasicRealm("two\nlines")}

\* HeaderValue::from_str / from_bytes: <<>> for a value with a control character
HeaderValue_from_str(value) ==
    IF value \in WithControl THEN <<>> ELSE <<value>>

\* the value httparse hands over for a header line: the spaces and tabs between
\* the colon and the value, and those after the value, are not part of it
httparse_value(text) ==
    IF text = " padded" THEN "padded" ELSE text

\* HeaderMap::insert: the value of a name already present is replaced
HeaderMap_insert(headers, name, value) ==
    IF \E i \in 1..Len(headers) : headers[i][1] = name
    THEN [i \in 1..Len(headers) |->
            IF headers[i][1] = name THEN <<name, value>> ELSE headers[i]]
    ELSE Append(headers, <<name, value>>)

\* the map a HeaderMap is compared as
HeaderMap_entries(headers) == {headers[i] : i \in 1..Len(headers)}

RECURSIVE HeaderMap_from_lines(_, _)
\* the loop over req.headers in parse
HeaderMap_from_lines(headers, lines) ==
    IF lines = <<>> THEN headers
    ELSE HeaderMap_from_lines(
            HeaderMap_insert(headers, HeaderName_from_bytes(lines[1][1])[1],
                             HeaderValue_from_str(lines[1][2])[1]),
            Tail(lines))

NoRequest ==
    [method |-> "", uri |-> NoUri, headers |-> <<>>, body |-> <<>>, raw_bytes |-> <<>>]

NoParse ==
    [st |-> "none", err |-> "", method |-> "", uri |-> NoUri, headers |-> <<>>,
     body |-> <<>>]

ParseError(e) == [NoParse EXCEPT !.st = "err", !.err = e]

RECURSIVE header_lines(_)
\* the header lines of the builder's output
header_lines(headers) ==
    IF headers = <<>> THEN <<>>
    ELSE <<headers[1][1], Colon, headers[1][2], CRLF>> \o header_lines(Tail(headers))

\* HttpRequestBuilder<Complete>::finish
HttpRequestBuilder_finish(b) ==
    LET method == IF b.method = <<>> THEN "GET" ELSE b.method[1]
        uri == IF b.uri = <<>> THEN Uri_from_str(<<"/">>).uri ELSE b.uri[1]
        raw == <<method, SP, Uri_path(uri), VersionLine>>
                 \o header_lines(b.headers) \o <<CRLF>> \o b.body
    IN  [method |-> method, uri |-> uri, headers |-> b.headers, body |-> b.body,
         raw_bytes |-> raw]

\* HttpRequest::parse
HttpRequest_parse(data) ==
    LET ends == {i \in 1..Len(data) : data[i] = VersionLine}
        e == CHOOSE i \in ends : \A j \in ends : i <= j
        Line(i) == <<data[e + 4 * i - 3], httparse_value(data[e + 4 * i - 1])>>
        IsLine(i) ==
            /\ e + 4 * i <= Len(data)
            /\ data[e + 4 * i - 3] # CRLF
            /\ data[e + 4 * i - 2] = Colon
            /\ data[e + 4 * i] = CRLF
        counts == {k \in 0..(Len(data) \div 4) :
                      /\ \A i \in 1..k : IsLine(i)
                      /\ e + 4 * k + 1 <= Len(data)
                      /\ data[e + 4 * k + 1] = CRLF}
        k == CHOOSE n \in counts : \A j \in counts : n <= j
        lines == [i \in 1..k |-> Line(i)]
        uri == Uri_from_str(SubSeq(data, 3, e - 1))
    IN  IF ends = {} THEN ParseError("Incomplete request")
        ELSE IF e < 3 \/ data[2] # SP THEN ParseError("InvalidRequest")
        ELSE IF counts = {} THEN ParseError("Incomplete request")
        ELSE IF k > MaxParsedHeaders THEN ParseError("InvalidRequest")
        ELSE IF uri.st # "ok" THEN ParseError("InvalidUri")
        ELSE IF \E i \in 1..k : \/ HeaderName_from_bytes(lines[i][1]) = <<>>
                                \/ HeaderValue_from_str(lines[i][2]) = <<>>
             THEN ParseError("InvalidHeader")
        ELSE [st |-> "ok", err |-> "", method |-> data[1], uri |-> uri.uri,
              headers |-> HeaderMap_from_lines(<<>>, lines),
              body |-> SubSeq(data, e + 4 * k + 2, Len(data))]

\* requests as a client writes them
RawRequests ==
    {<<"GET", SP, "/api", "?", "q=1", VersionLine,
       "Host", Colon, "example.com", CRLF, CRLF>>,
     <<"CONNECT", SP, "http", "://", "example.com", "/api", VersionLine, CRLF, "{}">>,
     <<"GET", SP, "/", VersionLine, "Host", Colon, "example.com", CRLF>>,
     <<"GET", SP, "/", VersionLine, "bad name", Colon, "example.com", CRLF, CRLF>>}

HeaderNames == {"Host", "Content-Type", "bad name"}

HeaderValues == {"example.com", "application/json", "two\nlines"}

Bodies == {<<>>, <<"{}">>}

\* what the request model leaves alone
beside_h1 == <<session, streams, codec, udp, p2>>

\* HttpRequestBuilder::new(), or bytes that came from a client
RequestInit ==
    /\ NoSession
    /\ streams = <<>>
    /\ codec = <<>>
    /\ udp = <<>>
    /\ p2 = <<>>
    /\ \/ h1 = [stage |-> "Building", method |-> <<>>, uri |-> <<>>, headers |-> <<>>,
                body |-> <<>>, request |-> NoRequest, data |-> <<>>, parsed |-> NoParse]
       \/ \E raw \in RawRequests :
            h1 = [stage |-> "Received", method |-> <<>>, uri |-> <<>>, headers |-> <<>>,
                  body |-> <<>>, request |-> NoRequest, data |-> raw, parsed |-> NoParse]

HttpRequestBuilder_method ==
    /\ h1.stage = "Building"
    /\ \E method \in Methods : h1' = [h1 EXCEPT !.method = <<method>>]
    /\ UNCHANGED beside_h1

HttpRequestBuilder_uri ==
    /\ h1.stage = "Building"
    /\ \E uri \in Uris : h1' = [h1 EXCEPT !.uri = <<uri>>]
    /\ UNCHANGED beside_h1

\* header(name, value): a name or a value that does not convert is left out
HttpRequestBuilder_header ==
    /\ h1.stage = "Building"
    /\ Len(h1.headers) < MaxHeaders
    /\ \E name \in HeaderNames, value \in HeaderValues :
         LET n == HeaderName_from_bytes(name)
             v == HeaderValue_from_str(value)
         IN  h1' = IF n # <<>> /\ v # <<>>
                   THEN [h1 EXCEPT !.headers = HeaderMap_insert(@, n[1], v[1])]
                   ELSE h1
    /\ UNCHANGED beside_h1

HttpRequestBuilder_body ==
    /\ h1.stage = "Building"
    /\ \E body \in Bodies : h1' = [h1 EXCEPT !.body = body]
    /\ UNCHANGED beside_h1

HttpRequestBuilder_build ==
    /\ h1.stage = "Building"
    /\ h1' = [h1 EXCEPT !.stage = "Complete"]
    /\ UNCHANGED beside_h1

\* finish(), and the raw bytes of the request taken for parsing
HttpRequestBuilder_finished ==
    /\ h1.stage = "Complete"
    /\ LET request == HttpRequestBuilder_finish(h1) IN
       h1' = [h1 EXCEPT !.stage = "Finished", !.request = request,
                        !.data = request.raw_bytes]
    /\ UNCHANGED beside_h1

HttpRequest_parsed ==
    /\ h1.stage \in {"Finished", "Received"}
    /\ h1' = [h1 EXCEPT !.stage = "Parsed", !.parsed = HttpRequest_parse(h1.data)]
    /\ UNCHANGED beside_h1

RequestNext ==
    \/ HttpRequestBuilder_method
    \/ HttpRequestBuilder_uri
    \/ HttpRequestBuilder_header
    \/ HttpRequestBuilder_body
    \/ HttpRequestBuilder_build
    \/ HttpRequestBuilder_finished
    \/ HttpRequest_parsed

RequestSpec == RequestInit /\ [][RequestNext]_vars

\* C20 (as claimed): the request parsed from the raw bytes of a built request has
\* the method, the URI, the headers and the body of the built request.
C20_RequestRoundTrip ==
    (h1.stage = "Parsed" /\ h1.request # NoRequest) =>
        /\ h1.parsed.st = "ok"
        /\ h1.parsed.method = h1.request.method
        /\ h1.parsed.uri = h1.request.uri
        /\ HeaderMap_entries(h1.parsed.headers) = HeaderMap_entries(h1.request.headers)
        /\ h1.parsed.body = h1.request.body

(* ========================= the HTTP response =========================== *)

\* status codes a caller hands to the builder
StatusCodes == {100, 200, 201, 404, 599}

\* StatusCode::canonical_reason: <<>> for a code without a registered reason
canonical_reason(status) ==
    IF status = 100 THEN <<"Continue">>
    ELSE IF status = 200 THEN <<"OK">>
    ELSE IF status = 201 THEN <<"Created">>
    ELSE IF status = 400 THEN <<"Bad Request">>
    ELSE IF status = 401 THEN <<"Unauthorized">>
    ELSE IF status = 403 THEN <<"Forbidden">>
    ELSE IF status = 404 THEN <<"Not Found">>
    ELSE IF status = 407 THEN <<"Proxy Authentication Required">>
    ELSE IF status = 500 THEN <<"Internal Server Error">>
    ELSE IF status = 502 THEN <<"Bad Gateway">>
    ELSE IF status = 503 THEN <<"Service Unavailable">>
    ELSE <<>>

\* the start of the status line
HttpVersion == "HTTP/1.1 "

\* StatusCode::as_str
StatusCode_as_str(status) == ToString(status)

\* the three digits httparse reads, then StatusCode::from_u16
StatusCode_from_str(text) ==
    LET codes == {c \in 100..999 : ToString(c) = text}
    IN  IF codes = {} THEN <<>> ELSE <<CHOOSE c \in codes : TRUE>>

\* String::into_bytes, a message being one atom of text
into_bytes(message) == IF message = "" THEN <<>> ELSE <<message>>

\* HeaderValue::to_str: <<>> for a value that is not visible ASCII
HeaderValue_to_str(value) == IF value \in WithControl THEN <<>> ELSE <<value>>

\* HttpResponse::header
HttpResponse_header(response, name) ==
    LET n == HeaderName_from_bytes(name)
        found == {i \in 1..Len(response.headers) :
                     n # <<>> /\ response.headers[i][1] = n[1]}
    IN  IF found = {} THEN <<>>
        ELSE HeaderValue_to_str(response.headers[CHOOSE i \in found : TRUE][2])

NoResponse == [status |-> 0, headers |-> <<>>, body |-> <<>>, raw_bytes |-> <<>>]

NoResponseParse ==
    [st |-> "none", err |-> "", status |-> 0, headers |-> <<>>, body |-> <<>>]

ResponseError(e) == [NoResponseParse EXCEPT !.st = "err", !.err = e]

\* HttpResponseBuilder::new
HttpResponseBuilder_new == [status |-> <<>>, headers |-> <<>>, body |-> <<>>]

\* HttpResponseBuilder::status
HttpResponseBuilder_status(b, status) == [b EXCEPT !.status = <<status>>]

\* HttpResponseBuilder::header: a name or a value that does not convert is left out
HttpResponseBuilder_header(b, name, value) ==
    LET n == HeaderName_from_bytes(name)
        v == HeaderValue_from_str(value)
    IN  IF n # <<>> /\ v # <<>>
        THEN [b EXCEPT !.headers = HeaderMap_insert(@, n[1], v[1])]
        ELSE b

\* HttpResponseBuilder::body
HttpResponseBuilder_body(b, body) == [b EXCEPT !.body = body]

\* HttpResponseBuilder::build, then HttpResponseBuilder<Complete>::finish
HttpResponseBuilder_finish(b) ==
    LET status == IF b.status = <<>> THEN 200 ELSE b.status[1]
        reason == IF canonical_reason(status) = <<>> THEN ""
                  ELSE canonical_reason(status)[1]
        raw == <<HttpVersion, StatusCode_as_str(status), SP, reason, CRLF>>
                 \o header_lines(b.headers) \o <<CRLF>> \o b.body
    IN  [status |-> status, headers |-> b.headers, body |-> b.body, raw_bytes |-> raw]

\* HttpResponse::parse
HttpResponse_parse(data) ==
    LET e == IF Len(data) >= 3 /\ data[3] = CRLF THEN 3
             ELSE IF Len(data) >= 5 /\ data[3] = SP /\ data[5] = CRLF THEN 5
             ELSE 0
        Line(i) == <<data[e + 4 * i - 3], httparse_value(data[e + 4 * i - 1])>>
        IsLine(i) ==
            /\ e + 4 * i <= Len(data)
            /\ data[e + 4 * i - 3] # CRLF
            /\ data[e + 4 * i - 2] = Colon
            /\ data[e + 4 * i] = CRLF
        counts == {k \in 0..(Len(data) \div 4) :
                      /\ \A i \in 1..k : IsLine(i)
                      /\ e + 4 * k + 1 <= Len(data)
                      /\ data[e + 4 * k + 1] = CRLF}
        k == CHOOSE n \in counts : \A j \in counts : n <= j
        lines == [i \in 1..k |-> Line(i)]
        status == StatusCode_from_str(data[2])
    IN  IF Len(data) < 2 \/ e = 0 THEN ResponseError("Incomplete response")
        ELSE IF data[1] # HttpVersion \/ status = <<>> THEN ResponseError("InvalidResponse")
        ELSE IF counts = {} THEN ResponseError("Incomplete response")
        ELSE IF k > MaxParsedHeaders THEN ResponseError("InvalidResponse")
        ELSE IF \E i \in 1..k : \/ HeaderName_from_bytes(lines[i][1]) = <<>>
                                \/ HeaderValue_from_str(lines[i][2]) = <<>>
             THEN ResponseError("InvalidHeader")
        ELSE [st |-> "ok", err |-> "", status |-> status[1],
              headers |-> HeaderMap_from_lines(<<>>, lines),
              body |-> SubSeq(data, e + 4 * k + 2, Len(data))]

\* HttpResponse::error_response
error_response(status, message) ==
    HttpResponseBuilder_finish(
        HttpResponseBuilder_body(
            HttpResponseBuilder_header(
                HttpResponseBuilder_status(HttpResponseBuilder_new, status),
                "Content-Type", "text/plain; charset=utf-8"),
            into_bytes(message)))

\* bad_request, forbidden, not_found, internal_server_error, bad_gateway and
\* service_unavailable, each with the status it passes to error_response
ErrorConstructors ==
    [bad_request |-> 400, forbidden |-> 403, not_found |-> 404,
     internal_server_error |-> 500, bad_gateway |-> 502, service_unavailable |-> 503]

\* HttpResponse::unauthorized
unauthorized(realm) ==
    HttpResponseBuilder_finish(
        HttpResponseBuilder_body(
            HttpResponseBuilder_header(
                HttpResponseBuilder_status(HttpResponseBuilder_new, 401),
                "WWW-Authenticate", BasicRealm(realm)),
            <<"401 Unauthorized">>))

\* HttpResponse::proxy_auth_required
proxy_auth_required(realm) ==
    HttpResponseBuilder_finish(
        HttpResponseBuilder_body(
            HttpResponseBuilder_header(
                HttpResponseBuilder_status(HttpResponseBuilder_new, 407),
                "Proxy-Authenticate", BasicRealm(realm)),
            <<"407 Proxy Authentication Required">>))

Messages == {"", "Access denied", "Invalid request format"}

ResponseHeaderNames == {"Content-Type", "WWW-Authenticate", "bad name"}

ResponseHeaderValues == {"application/json", " padded", "two\nlines"}

\* responses as an upstream server writes them
RawResponses ==
    {<<HttpVersion, "200", SP, "OK", CRLF, "Content-Type", Colon, "text/plain", CRLF,
       CRLF, "Hello">>,
     <<HttpVersion, "204", CRLF, CRLF>>,
     <<HttpVersion, "200", SP, "OK", CRLF, "Content-Type", Colon, "text/plain", CRLF>>,
     <<HttpVersion, "99", SP, "OK", CRLF, CRLF>>}

NoConstructor == [ctor |-> "", arg |-> ""]

\* HttpResponseBuilder::new(), or bytes that came from an upstream server
ResponseInit ==
    /\ NoSession
    /\ streams = <<>>
    /\ codec = <<>>
    /\ udp = <<>>
    /\ p2 = <<>>
    /\ \/ h1 = [stage |-> "Building", builder |-> HttpResponseBuilder_new,
                call |-> NoConstructor, response |-> NoResponse, data |-> <<>>,
                parsed |-> NoResponseParse]
       \/ \E raw \in RawResponses :
            h1 = [stage |-> "Received", builder |-> HttpResponseBuilder_new,
                  call |-> NoConstructor, response |-> NoResponse, data |-> raw,
                  parsed |-> NoResponseParse]

builder_status ==
    /\ h1.stage = "Building"
    /\ \E status \in StatusCodes :
         h1' = [h1 EXCEPT !.builder = HttpResponseBuilder_status(@, status)]
    /\ UNCHANGED beside_h1

builder_header ==
    /\ h1.stage = "Building"
    /\ Len(h1.builder.headers) < MaxHeaders
    /\ \E name \in ResponseHeaderNames, value \in ResponseHeaderValues :
         h1' = [h1 EXCEPT !.builder = HttpResponseBuilder_header(@, name, value)]
    /\ UNCHANGED beside_h1

builder_body ==
    /\ h1.stage = "Building"
    /\ \E body \in Bodies : h1' = [h1 EXCEPT !.builder = HttpResponseBuilder_body(@, body)]
    /\ UNCHANGED beside_h1

\* build().finish(), and the raw bytes of the response taken for parsing
builder_finish ==
    /\ h1.stage = "Building"
    /\ LET response == HttpResponseBuilder_finish(h1.builder) IN
       h1' = [h1 EXCEPT !.stage = "Finished", !.response = response,
                        !.data = response.raw_bytes]
    /\ UNCHANGED beside_h1

\* one of the constructors with a message
error_constructor ==
    /\ h1.stage = "Building"
    /\ h1.builder = HttpResponseBuilder_new
    /\ \E ctor \in DOMAIN ErrorConstructors, message \in Messages :
         LET response == error_response(ErrorConstructors[ctor], message) IN
         h1' = [h1 EXCEPT !.stage = "Finished", !.response = response,
                          !.call = [ctor |-> ctor, arg |-> message],
                          !.data = response.raw_bytes]
    /\ UNCHANGED beside_h1

\* unauthorized or proxy_auth_required with a realm
realm_constructor ==
    /\ h1.stage = "Building"
    /\ h1.builder = HttpResponseBuilder_new
    /\ \E realm \in Realms :
         \/ h1' = [h1 EXCEPT !.stage = "Finished", !.response = unauthorized(realm),
                             !.call = [ctor |-> "unauthorized", arg |-> realm],
                             !.data = unauthorized(realm).raw_bytes]
         \/ h1' = [h1 EXCEPT !.stage = "Finished",
                             !.response = proxy_auth_required(realm),
                             !.call = [ctor |-> "proxy_auth_required", arg |-> realm],
                             !.data = proxy_auth_required(realm).raw_bytes]
    /\ UNCHANGED beside_h1

response_parse ==
    /\ h1.stage \in {"Finished", "Received"}
    /\ h1' = [h1 EXCEPT !.stage = "Parsed", !.parsed = HttpResponse_parse(h1.data)]
    /\ UNCHANGED beside_h1

ResponseNext ==
    \/ builder_status
    \/ builder_header
    \/ builder_body
    \/ builder_finish
    \/ error_constructor
    \/ realm_constructor
    \/ response_parse

ResponseSpec == ResponseInit /\ [][ResponseNext]_vars

\* C21 (as claimed): the response parsed from the raw bytes of a built response
\* has the status, the headers and the body of the built response.
C21_ResponseRoundTrip ==
    (h1.stage = "Parsed" /\ h1.response # NoResponse) =>
        /\ h1.parsed.st = "ok"
        /\ h1.parsed.status = h1.response.status
        /\ HeaderMap_entries(h1.parsed.headers) = HeaderMap_entries(h1.response.headers)
        /\ h1.parsed.body = h1.response.body

\* C30 (as claimed): each of bad_request, forbidden, not_found,
\* internal_server_error, bad_gateway and service_unavailable returns its own
\* status, the bytes of the message as body and the header Content-Type
\* "text/plain; charset=utf-8"; unauthorized(r) carries WWW-Authenticate and
\* proxy_auth_required(r) carries Proxy-Authenticate with the value
\* Basic realm="r", for every realm r.
C30_CannedConstructors ==
    /\ h1.call.ctor \in DOMAIN ErrorConstructors =>
         /\ h1.response.status = ErrorConstructors[h1.call.ctor]
         /\ h1.response.body = into_bytes(h1.call.arg)
         /\ HttpResponse_header(h1.response, "Content-Type")
              = <<"text/plain; charset=utf-8">>
    /\ h1.call.ctor = "unauthorized" =>
         /\ h1.response.status = 401
         /\ HttpResponse_header(h1.response, "WWW-Authenticate")
              = <<BasicRealm(h1.call.arg)>>
    /\ h1.call.ctor = "proxy_auth_required" =>
         /\ h1.response.status = 407
         /\ HttpResponse_header(h1.response, "Proxy-Authenticate")
              = <<BasicRealm(h1.call.arg)>>

(* ========================= the HTTP async read ========================= *)

MAX_HEADER_SIZE == 32768

BUFFER_SIZE == 4096

\* b"\r\n\r\n"
CRLF2 == <<13, 10, 13, 10>>

\* the longest short stream, and the longest short read
MaxStream == 5

\* the number of reads one call may make in this model
MaxReads == 9

\* memchr::memmem::find(haystack, needle).is_some()
memmem_find(haystack, needle) ==
    \E i \in 1..(Len(haystack) - Len(needle) + 1) :
        \A j \in 1..Len(needle) : haystack[i + j - 1] = needle[j]

\* &buffer[buffer.len() - 4..] == CRLF2, guarded by buffer.len() >= 4
ends_with_CRLF2(buffer) ==
    /\ Len(buffer) >= 4
    /\ SubSeq(buffer, Len(buffer) - 3, Len(buffer)) = CRLF2

search_start_at_boundary(prev_len) == prev_len

\* the start of the overlap region
search_start(prev_len) == IF prev_len >= 3 THEN prev_len - 3 ELSE 0

header_never_too_large(len) == FALSE

\* buffer.len() > MAX_HEADER_SIZE
header_too_large(len) == len > MAX_HEADER_SIZE

\* InvalidRequest in HttpRequest::from_stream, InvalidResponse in
\* HttpResponse::from_stream
StreamError(kind, text) ==
    [variant |-> IF kind = "request" THEN "InvalidRequest" ELSE "InvalidResponse",
     text |-> text]

NoStreamError == [variant |-> "", text |-> ""]

on_zero_read_completes(h) == [h EXCEPT !.reads = @ + 1, !.stage = "complete", !.handed = h.buffer]

\* n == 0: the call returns the connection-closed error
on_zero_read(h) ==
    [h EXCEPT !.reads = @ + 1, !.stage = "err",
              !.err = StreamError(h.kind, "Connection closed")]

\* what a peer sends before it closes: every short byte string over CR, LF and
\* a letter, and long ones around the size limit
ShortStreams ==
    UNION {[1..n -> {13, 10, 120}] : n \in 0..MaxStream}

LongStreams ==
    {[i \in 1..(MAX_HEADER_SIZE + 1) |-> 120],
     [i \in 1..(MAX_HEADER_SIZE - 4) |-> 120] \o CRLF2,
     [i \in 1..(MAX_HEADER_SIZE - 3) |-> 120] \o CRLF2,
     [i \in 1..(MAX_HEADER_SIZE - 4) |-> 120] \o CRLF2 \o <<120>>}

\* the number of bytes one read may return
ReadSizes == (1..(MaxStream - 2)) \cup {BUFFER_SIZE}

\* the first lines of from_stream: an empty buffer
ReaderInit ==
    /\ NoSession
    /\ streams = <<>>
    /\ codec = <<>>
    /\ udp = <<>>
    /\ p2 = <<>>
    /\ \E kind \in {"request", "response"}, input \in ShortStreams \cup LongStreams :
         h1 = [stage |-> "reading", kind |-> kind, input |-> input, buffer |-> <<>>,
               reads |-> 0, err |-> NoStreamError, handed |-> <<>>]

\* one turn of the loop: a read of n bytes (0 once the peer has closed), then
\* the size check, the check of the last four bytes and the search from the
\* overlap region; on completion the buffer is handed to parse_bytes
from_stream_read ==
    /\ h1.stage = "reading"
    /\ h1.reads < MaxReads
    /\ \E n \in 0..BUFFER_SIZE :
         /\ IF h1.input = <<>> THEN n = 0
            ELSE n \in ReadSizes /\ n <= Len(h1.input)
         /\ LET prev_len == Len(h1.buffer)
                buffer == h1.buffer \o Take(h1.input, n)
                rest == Skip(h1.input, n)
                read == [h1 EXCEPT !.reads = @ + 1, !.input = rest, !.buffer = buffer]
            IN  h1' =
                  IF n = 0
                  THEN on_zero_read(h1)
                  ELSE IF header_too_large(Len(buffer))
                  THEN [read EXCEPT !.stage = "err",
                                    !.err = StreamError(h1.kind, "Header too large")]
                  ELSE IF ends_with_CRLF2(buffer)
                  THEN [read EXCEPT !.stage = "complete", !.handed = buffer]
                  ELSE IF memmem_find(
                            SubSeq(buffer, search_start(prev_len) + 1, Len(buffer)), CRLF2)
                  THEN [read EXCEPT !.stage = "complete", !.handed = buffer]
                  ELSE read
    /\ UNCHANGED beside_h1

\* stream.read(&mut temp).await? returns an error
from_stream_io_error ==
    /\ h1.stage = "reading"
    /\ h1' = [h1 EXCEPT !.stage = "err", !.err = [variant |-> "Io", text |-> ""]]
    /\ UNCHANGED beside_h1

ReaderNext ==
    \/ from_stream_read
    \/ from_stream_io_error

ReaderSpec == ReaderInit /\ [][ReaderNext]_vars

\* C22: however the bytes are split into reads, from_stream goes on reading
\* only while the accumulated buffer holds no CRLF CRLF, and it completes only
\* with a buffer that holds one: the check of the last four bytes and the
\* search from three bytes before the previous length find the terminator
\* exactly when a search of the whole buffer does.
C22_StopsAtTerminator ==
    /\ h1.stage = "reading" => ~memmem_find(h1.buffer, CRLF2)
    /\ h1.stage = "complete" =>
         /\ memmem_find(h1.buffer, CRLF2)
         /\ h1.handed = h1.buffer

\* a terminator split across reads, with a byte after it in the last read
C22_Witness ==
    /\ h1.stage = "complete"
    /\ h1.reads >= 2
    /\ ~ends_with_CRLF2(h1.buffer)
    /\ h1.input = <<>>
    /\ Len(h1.buffer) = 5

\* C23: a buffer of more than 32 KiB makes from_stream fail with the
\* header-too-large error, no message being returned, and the buffer never
\* holds more than 32 KiB plus one read of 4 KiB.
C23_HeaderTooLarge ==
    /\ Len(h1.buffer) > MAX_HEADER_SIZE =>
         /\ h1.stage = "err"
         /\ h1.err = StreamError(h1.kind, "Header too large")
         /\ h1.handed = <<>>
    /\ Len(h1.buffer) <= MAX_HEADER_SIZE + BUFFER_SIZE

\* more than 32 KiB without a terminator
C23_Witness ==
    /\ Len(h1.buffer) > MAX_HEADER_SIZE
    /\ ~memmem_find(h1.buffer, CRLF2)
    /\ h1.err.text = "Header too large"

(* ========================= Proxy-Authorization ========================= *)

\* text is a sequence of bytes here

\* the longest generated credential text
MaxPayload == 4

\* b"Basic "
BasicPrefix == <<66, 97, 115, 105, 99, 32>>

\* "basic ", "Bearer " and "Basic" without the space
OtherPrefixes ==
    {<<98, 97, 115, 105, 99, 32>>, <<66, 101, 97, 114, 101, 114, 32>>,
     <<66, 97, 115, 105, 99>>}

\* O g = / w and the byte E9
PayloadBytes == {79, 103, 61, 47, 119, 233}

\* dXNlcjpwYXNz (user:pass), dXNlcjpwOmE= (user:p:a), dXNlcg== (user),
\* dXNlcjpwOmE (padding left out) and w6k6eA== (two-byte letter, colon, x)
LongPayloads ==
    {<<100, 88, 78, 108, 99, 106, 112, 119, 89, 88, 78, 122>>,
     <<100, 88, 78, 108, 99, 106, 112, 119, 79, 109, 69, 61>>,
     <<100, 88, 78, 108, 99, 103, 61, 61>>,
     <<100, 88, 78, 108, 99, 106, 112, 119, 79, 109, 69>>,
     <<119, 54, 107, 54, 101, 65, 61, 61>>}

Payloads == UNION {[1..n -> PayloadBytes] : n \in 0..MaxPayload} \cup LongPayloads

\* the values a Proxy-Authorization header may hold
AuthValues == {prefix \o payload : prefix \in {BasicPrefix} \cup OtherPrefixes,
                                   payload \in Payloads}

\* HeaderValue::to_str succeeds: every byte is visible ASCII or a tab
is_visible_ascii(value) ==
    \A i \in 1..Len(value) : (value[i] >= 32 /\ value[i] < 127) \/ value[i] = 9

\* HttpRequest::header("Proxy-Authorization"): <<>> without the header, and
\* also when its value does not convert to a str
HttpRequest_header(headers) ==
    IF headers = <<>> THEN <<>>
    ELSE IF is_visible_ascii(headers[1]) THEN <<headers[1]>>
    ELSE <<>>

\* str::starts_with
starts_with(text, prefix) ==
    Len(text) >= Len(prefix) /\ SubSeq(text, 1, Len(prefix)) = prefix

\* the value of a symbol of the standard alphabet, -1 for any other byte
Base64Value(c) ==
    IF c >= 65 /\ c <= 90 THEN c - 65
    ELSE IF c >= 97 /\ c <= 122 THEN c - 71
    ELSE IF c >= 48 /\ c <= 57 THEN c + 4
    ELSE IF c = 43 THEN 62
    ELSE IF c = 47 THEN 63
    ELSE -1

\* general_purpose::STANDARD.decode: padded to a multiple of four symbols, the
\* unused bits of the last symbol zero
base64_decode(text) ==
    LET n == Len(text)
        pads == IF n >= 2 /\ text[n] = 61 /\ text[n - 1] = 61 THEN 2
                ELSE IF n >= 1 /\ text[n] = 61 THEN 1
                ELSE 0
        v(i) == Base64Value(text[i])
        wellformed ==
            /\ n % 4 = 0
            /\ \A i \in 1..(n - pads) : v(i) >= 0
            /\ pads = 2 => v(n - 2) % 16 = 0
            /\ pads = 1 => v(n - 1) % 4 = 0
        Byte(k) ==
            LET q == 4 * ((k - 1) \div 3)
                r == (k - 1) % 3
            IN  IF r = 0 THEN v(q + 1) * 4 + v(q + 2) \div 16
                ELSE IF r = 1 THEN (v(q + 2) % 16) * 16 + v(q + 3) \div 4
                ELSE (v(q + 3) % 4) * 64 + v(q + 4)
    IN  IF wellformed
        THEN [ok |-> TRUE, bytes |-> [k \in 1..((n \div 4) * 3 - pads) |-> Byte(k)]]
        ELSE [ok |-> FALSE, bytes |-> <<>>]

\* the parts of splitn(2, ':')
splitn2(text) ==
    LET colons == {i \in 1..Len(text) : text[i] = 58}
        first == CHOOSE i \in colons : \A j \in colons : i <= j
    IN  IF colons = {} THEN <<text>>
        ELSE <<SubSeq(text, 1, first - 1), SubSeq(text, first + 1, Len(text))>>

AuthError(text) == [st |-> "AuthError", text |-> text, username |-> <<>>, password |-> <<>>]

NoCredentials == [st |-> "None", text |-> "", username |-> <<>>, password |-> <<>>]

\* HttpRequest::parse_basic_auth
parse_basic_auth(headers) ==
    LET auth_header == HttpRequest_header(headers)
        decoded == base64_decode(Skip(auth_header[1], 6))
        parts == splitn2(decoded.bytes)
    IN  IF auth_header = <<>> THEN NoCredentials
        ELSE IF ~starts_with(auth_header[1], BasicPrefix)
        THEN AuthError("Invalid authorization scheme")
        ELSE IF ~decoded.ok THEN AuthError("Invalid base64")
        ELSE IF ~String_from_utf8(decoded.bytes) THEN AuthError("Invalid UTF-8")
        ELSE IF Len(parts) # 2 THEN AuthError("Invalid credentials format")
        ELSE [st |-> "Some", text |-> "", username |-> parts[1], password |-> parts[2]]

\* a request without the header, or with one value of it
AuthInit ==
    /\ NoSession
    /\ streams = <<>>
    /\ codec = <<>>
    /\ udp = <<>>
    /\ p2 = <<>>
    /\ \E headers \in {<<>>} \cup {<<value>> : value \in AuthValues} :
         h1 = [stage |-> "request", headers |-> headers, result |-> NoCredentials]

call_parse_basic_auth ==
    /\ h1.stage = "request"
    /\ h1' = [h1 EXCEPT !.stage = "done", !.result = parse_basic_auth(h1.headers)]
    /\ UNCHANGED beside_h1

AuthNext == call_parse_basic_auth

AuthSpec == AuthInit /\ [][AuthNext]_vars

\* the text a header value must decode to for credentials to come out of it
Credentials(value) ==
    IF starts_with(value, BasicPrefix) /\ base64_decode(Skip(value, 6)).ok
    THEN base64_decode(Skip(value, 6)).bytes
    ELSE <<>>

\* C24 (as claimed): parse_basic_auth returns no credentials exactly when the
\* request has no Proxy-Authorization header; a value that begins with
\* "Basic " and whose remainder decodes to valid UTF-8 with a colon gives the
\* text before and the text after the first colon; every other value gives
\* AuthError.
C24_BasicAuth ==
    h1.stage = "done" =>
        /\ h1.result.st = "None" <=> h1.headers = <<>>
        /\ h1.headers # <<>> =>
             LET value == h1.headers[1]
                 text == Credentials(value)
                 valid == /\ starts_with(value, BasicPrefix)
                          /\ base64_decode(Skip(value, 6)).ok
                          /\ Utf8Valid(text)
                          /\ \E i \in 1..Len(text) : text[i] = 58
             IN  IF valid
                 THEN /\ h1.result.st = "Some"
                      /\ h1.result.username \o <<58>> \o h1.result.password = text
                      /\ \A i \in 1..Len(h1.result.username) :
                            h1.result.username[i] # 58
                 ELSE h1.result.st = "AuthError"

(* ========================= PROXY protocol v2 =========================== *)

SIGNATURE_LENGTH == 12

\* b"\r\n\r\n\x00\r\nQUIT\n"
PROXY_SIGNATURE == <<13, 10, 13, 10, 0, 13, 10, 81, 85, 73, 84, 10>>

HEADER_SIZE == 16

AF_UNSPEC == 0

AF_INET == 16

AF_INET6 == 32

AF_UNIX == 48

IPV4_ADDR_SIZE == 12

IPV6_ADDR_SIZE == 36

\* the most bytes a frame declares beyond its addresses
MaxTlv == 2

NoHeader ==
    [st |-> "none", err |-> "", arg |-> 0, command |-> "", address_family |-> 0,
     protocol |-> 0, addresses |-> <<>>]

P2Error(e) == [NoHeader EXCEPT !.st = "err", !.err = e]

\* an error variant that carries a u8
P2ErrorOf(e, byte) == [P2Error(e) EXCEPT !.arg = byte]

version_of_low_nibble(version_command) == version_command % 16

\* version_command >> 4
version_of(version_command) == version_command \div 16

command_byte_of_lowest_bit(version_command) == version_command % 2

\* version_command & 0x0f
command_byte_of(version_command) == version_command % 16

signature_always_matches(header_buf) == TRUE

\* &header_buf[..SIGNATURE_LENGTH] == PROXY_SIGNATURE
signature_matches(header_buf) == SubSeq(header_buf, 1, SIGNATURE_LENGTH) = PROXY_SIGNATURE

total_len_of_header(addr_len) == HEADER_SIZE

\* the length of the frame read after the peek
total_len(addr_len) == HEADER_SIZE + addr_len

wants_addresses_for_any_command(cmd, addr_len) == addr_len > 0

\* command == Command::Proxy && addr_len > 0
wants_addresses(cmd, addr_len) == cmd = "Proxy" /\ addr_len > 0

\* parse_addresses
parse_addresses(buf, family) ==
    IF family = AF_INET
    THEN IF Len(buf) < IPV4_ADDR_SIZE THEN P2Error("AddressLengthMismatch")
         ELSE [st |-> "ok",
               source |-> [ip |-> SubSeq(buf, 1, 4),
                           port |-> u16_from_be_bytes(buf[9], buf[10])],
               destination |-> [ip |-> SubSeq(buf, 5, 8),
                                port |-> u16_from_be_bytes(buf[11], buf[12])]]
    ELSE IF family = AF_INET6
    THEN IF Len(buf) < IPV6_ADDR_SIZE THEN P2Error("AddressLengthMismatch")
         ELSE [st |-> "ok",
               source |-> [ip |-> SubSeq(buf, 1, 16),
                           port |-> u16_from_be_bytes(buf[33], buf[34])],
               destination |-> [ip |-> SubSeq(buf, 17, 32),
                                port |-> u16_from_be_bytes(buf[35], buf[36])]]
    ELSE P2ErrorOf("InvalidAddressFamily", family)

\* parse_proxy_protocol from the peek of n bytes up to the read of the frame:
\* an error, or the fields of the fixed header
peeked_header(header_buf, n) ==
    LET version_command == header_buf[SIGNATURE_LENGTH + 1]
        version == version_of(version_command)
        command_byte == command_byte_of(version_command)
        family_protocol == header_buf[SIGNATURE_LENGTH + 2]
        addr_len == u16_from_be_bytes(header_buf[SIGNATURE_LENGTH + 3],
                                      header_buf[SIGNATURE_LENGTH + 4])
    IN  IF n < HEADER_SIZE THEN P2Error("InvalidSignature")
        ELSE IF ~signature_matches(header_buf) THEN P2Error("InvalidSignature")
        ELSE IF version # 2 THEN P2ErrorOf("UnsupportedVersion", version)
        ELSE IF command_byte \notin {0, 1} THEN P2ErrorOf("InvalidCommand", command_byte)
        ELSE IF addr_len > 65535 THEN P2Error("InvalidAddressLength")
        ELSE [st |-> "header", err |-> "",
              command |-> IF command_byte = 0 THEN "Local" ELSE "Proxy",
              address_family |-> (family_protocol \div 16) * 16,
              protocol |-> family_protocol % 16,
              addr_len |-> addr_len]

\* parse_proxy_protocol after read_exact has filled frame_buf
framed_header(frame_buf, fixed) ==
    LET parsed == parse_addresses(Skip(frame_buf, HEADER_SIZE), fixed.address_family)
    IN  IF ~wants_addresses(fixed.command, fixed.addr_len)
        THEN [st |-> "ok", err |-> "", command |-> fixed.command,
              address_family |-> fixed.address_family, protocol |-> fixed.protocol,
              addresses |-> <<>>]
        ELSE IF parsed.st # "ok" THEN parsed
        ELSE [st |-> "ok", err |-> "", command |-> fixed.command,
              address_family |-> fixed.address_family, protocol |-> fixed.protocol,
              addresses |-> <<[source |-> parsed.source,
                               destination |-> parsed.destination]>>]

\* version 2 with LOCAL, PROXY and an unknown command, version 1 with PROXY
\* and with an unknown command
VersionCommands == {32, 33, 34, 17, 21}

\* UNSPEC, INET stream, INET datagram, INET6 stream, UNIX stream, unknown family
FamilyProtocols == {0, 17, 18, 33, 49, 65}

DeclaredLengths ==
    {0, IPV4_ADDR_SIZE - 1, IPV6_ADDR_SIZE - 1}
      \cup {IPV4_ADDR_SIZE + t : t \in 0..MaxTlv}
      \cup {IPV6_ADDR_SIZE + t : t \in 0..MaxTlv}

\* 192.168.1.100 and 10.0.0.1 with the ports 12345 and 80, then counting bytes
AddressBlock(n) ==
    [i \in 1..n |->
        IF i <= 12 THEN <<192, 168, 1, 100, 10, 0, 0, 1, 48, 57, 0, 80>>[i] ELSE i]

\* what follows the header on the connection: nothing, or "GE"
AppData == {<<>>, <<71, 69>>}

Frames ==
    {PROXY_SIGNATURE \o <<vc, fp, len \div 256, len % 256>>
       \o AddressBlock(IF len > 0 THEN len - short ELSE 0) \o app :
        vc \in VersionCommands, fp \in FamilyProtocols, len \in DeclaredLengths,
        short \in {0, 1}, app \in AppData}

\* "GET / HTTP/1.1\r\n\r\n", the signature cut short, the signature with three
\* more bytes, a signature with one byte changed, and nothing at all
NotProxy ==
    {<<71, 69, 84, 32, 47, 32, 72, 84, 84, 80, 47, 49, 46, 49, 13, 10, 13, 10>>,
     SubSeq(PROXY_SIGNATURE, 1, 11),
     PROXY_SIGNATURE \o <<33, 17, 0>>,
     <<13, 10, 13, 10, 0, 13, 10, 81, 85, 73, 84, 11, 33, 17, 0, 0>>,
     <<>>}

\* what the proxy protocol model leaves alone
beside_p2 == <<session, streams, codec, udp, h1>>

\* a connection just accepted: wire is what the peer sends before it closes,
\* arrived how much of it the socket has received, consumed how much of it has
\* been read off the socket
P2Init ==
    /\ NoSession
    /\ streams = <<>>
    /\ codec = <<>>
    /\ udp = <<>>
    /\ h1 = <<>>
    /\ \E wire \in Frames \cup NotProxy :
         p2 = [wire |-> wire, arrived |-> 0, consumed |-> 0, pc |-> "peek", n |-> 0,
               fixed |-> NoHeader, result |-> NoHeader, app |-> <<>>]

\* more of the peer's bytes reach the socket
peer_sends ==
    /\ p2.pc \in {"peek", "read_exact"}
    /\ \E k \in (p2.arrived + 1)..Len(p2.wire) : p2' = [p2 EXCEPT !.arrived = k]
    /\ UNCHANGED beside_p2

\* stream.peek(&mut header_buf) returns what has arrived, at most 16 bytes (0
\* once the peer has closed without sending), and the checks of the fixed header
\* follow
parse_peek ==
    /\ p2.pc = "peek"
    /\ p2.arrived > 0 \/ p2.wire = <<>>
    /\ LET n == IF p2.arrived < HEADER_SIZE THEN p2.arrived ELSE HEADER_SIZE
           header_buf == Take(p2.wire, n) \o [i \in 1..(HEADER_SIZE - n) |-> 0]
           fixed == peeked_header(header_buf, n)
       IN  p2' = IF fixed.st = "err"
                 THEN [p2 EXCEPT !.pc = "done", !.n = n, !.result = fixed]
                 ELSE [p2 EXCEPT !.pc = "read_exact", !.n = n, !.fixed = fixed]
    /\ UNCHANGED beside_p2

\* stream.read_exact(&mut frame_buf) returns with the frame, or with an error
\* when the peer has closed before the frame is complete; the addresses follow
parse_read_exact ==
    /\ p2.pc = "read_exact"
    /\ LET need == total_len(p2.fixed.addr_len) IN
       \/ /\ p2.arrived >= need
          /\ p2' = [p2 EXCEPT !.pc = "done", !.consumed = need,
                              !.result = framed_header(Take(p2.wire, need), p2.fixed)]
       \/ /\ p2.arrived = Len(p2.wire)
          /\ Len(p2.wire) < need
          /\ p2' = [p2 EXCEPT !.pc = "done", !.consumed = Len(p2.wire),
                              !.result = P2Error("Io")]
    /\ UNCHANGED beside_p2

\* peek or read_exact returns an I/O error
parse_io_error ==
    /\ p2.pc \in {"peek", "read_exact"}
    /\ p2' = [p2 EXCEPT !.pc = "done", !.result = P2Error("Io")]
    /\ UNCHANGED beside_p2

\* the application reads what the socket holds after a header was returned
application_reads ==
    /\ p2.pc = "done"
    /\ p2.result.st = "ok"
    /\ p2.arrived = Len(p2.wire)
    /\ p2.consumed < Len(p2.wire)
    /\ p2' = [p2 EXCEPT !.pc = "relay", !.consumed = Len(p2.wire),
                        !.app = Skip(p2.wire, p2.consumed)]
    /\ UNCHANGED beside_p2

P2Next ==
    \/ peer_sends
    \/ parse_peek
    \/ parse_read_exact
    \/ parse_io_error
    \/ application_reads

P2Spec == P2Init /\ [][P2Next]_vars

\* the peek has returned (an I/O error before it leaves fixed and n untouched)
PeekReturned ==
    /\ p2.pc # "peek"
    /\ ~(p2.result.err = "Io" /\ p2.fixed = NoHeader)

\* the call has ended on a frame with the signature, otherwise than by an I/O
\* error
FrameParsed ==
    /\ p2.pc \in {"done", "relay"}
    /\ p2.n = HEADER_SIZE
    /\ SubSeq(p2.wire, 1, 12) = PROXY_SIGNATURE
    /\ p2.result.err # "Io"

\* bytes 13 to 16 of the frame as the peer wrote them
WireVersionCommand == p2.wire[13]

WireFamily == (p2.wire[14] \div 16) * 16

WireAddrLen == p2.wire[15] * 256 + p2.wire[16]

\* C25: when the peek returns fewer than 16 bytes, or the first 12 bytes are
\* not the signature, parse_proxy_protocol fails with InvalidSignature,
\* returns no header and has read nothing off the connection.
C25_InvalidSignature ==
    (PeekReturned /\ (p2.n < 16 \/ SubSeq(p2.wire, 1, 12) # PROXY_SIGNATURE)) =>
        /\ p2.pc = "done"
        /\ p2.result = P2Error("InvalidSignature")
        /\ p2.consumed = 0

\* plain HTTP traffic, sixteen bytes of it peeked
C25_Witness ==
    /\ p2.n = 16
    /\ p2.wire[1] = 71
    /\ p2.result.err = "InvalidSignature"

\* C26: when a header is returned, exactly 16 + addr_len bytes have been read
\* off the connection, TLV bytes after the addresses included, and what the
\* application reads next starts with the first byte after the frame.
C26_ConsumesFrame ==
    p2.result.st = "ok" =>
        /\ p2.pc = "done" => p2.consumed = 16 + WireAddrLen
        /\ p2.pc = "relay" => p2.app = Skip(p2.wire, 16 + WireAddrLen)

\* an INET frame with TLV bytes, and the application reading "GE" after it
C26_Witness ==
    /\ p2.pc = "relay"
    /\ WireFamily = AF_INET
    /\ WireAddrLen > IPV4_ADDR_SIZE
    /\ p2.result.addresses # <<>>
    /\ p2.app = <<71, 69>>

\* C27 (as claimed): for a PROXY command with family INET a declared addr_len
\* below 12, 0 included, makes the call fail, and one of 12 or more gives
\* source ip, destination ip, source port and destination port in that order,
\* big-endian; the same for INET6 with 36.
C27_AddressLength ==
    (FrameParsed /\ WireVersionCommand = 33 /\ WireFamily \in {AF_INET, AF_INET6}) =>
        LET need == IF WireFamily = AF_INET THEN 12 ELSE 36
            ip == IF WireFamily = AF_INET THEN 4 ELSE 16
            b == Skip(p2.wire, 16)
        IN  IF WireAddrLen < need
            THEN p2.result.st = "err"
            ELSE /\ p2.result.st = "ok"
                 /\ p2.result.addresses =
                      <<[source |-> [ip |-> SubSeq(b, 1, ip),
                                     port |-> b[2 * ip + 1] * 256 + b[2 * ip + 2]],
                         destination |-> [ip |-> SubSeq(b, ip + 1, 2 * ip),
                                          port |-> b[2 * ip + 3] * 256 + b[2 * ip + 4]]]>>

\* C28 (as claimed): for a PROXY command with family UNIX or UNSPEC the call
\* fails with InvalidAddressFamily, whatever addr_len the frame declares.
C28_UnixAndUnspecRejected ==
    (FrameParsed /\ WireVersionCommand = 33 /\ WireFamily \in {AF_UNIX, AF_UNSPEC}) =>
        p2.result = P2ErrorOf("InvalidAddressFamily", WireFamily)

\* C29: for a LOCAL command the call returns a header with command LOCAL and
\* no addresses, whatever the family / transport byte and the declared
\* addr_len.
C29_LocalHasNoAddresses ==
    (FrameParsed /\ WireVersionCommand = 32) =>
        /\ p2.result.st = "ok"
        /\ p2.result.command = "Local"
        /\ p2.result.addresses = <<>>

\* a LOCAL frame that declares INET and twelve bytes of addresses
C29_Witness ==
    /\ FrameParsed
    /\ WireVersionCommand = 32
    /\ WireFamily = AF_INET
    /\ WireAddrLen = 12
    /\ p2.result.st = "ok"
    /\ p2.consumed = 28

(* ===================== further session properties ====================== *)

\* C31: a wait_request that returns Ok leaves the sub-handle of the request's
\* command, in its first state, as the owner of the stream, paired with the
\* address of the request: CONNECT gives Connect<NeedReply>, BIND gives
\* Bind<NeedFirstReply>, UDP ASSOCIATE gives UdpAssociate<NeedReply>.
C31_SubHandleMatchesCommand ==
    [][(result'.op = "wait_request" /\ result'.err = "" /\ rpos' > rpos) =>
          LET req == SubSeq(script, rpos + 1, rpos') IN
          /\ req[2] = CmdConnect =>
               handles' = {"Connect<NeedReply>"} /\ command' = "Connect"
          /\ req[2] = CmdBind =>
               handles' = {"Bind<NeedFirstReply>"} /\ command' = "Bind"
          /\ req[2] = CmdUdpAssociate =>
               handles' = {"UdpAssociate<NeedReply>"} /\ command' = "UdpAssociate"
          /\ req[2] \in {CmdConnect, CmdBind, CmdUdpAssociate}
          /\ Address_write_to_buf(address') = Skip(req, 3)]_vars

\* the request 05 01 00 01 7F 00 00 01 00 50 has been read
C31_Witness ==
    /\ result = Ok("wait_request")
    /\ handles = {"Connect<NeedReply>"}
    /\ command = "Connect"
    /\ address = [kind |-> "V4", host |-> <<127, 0, 0, 1>>, port |-> 80]

(* ===================== further HTTP properties ========================= *)

\* a URI as it is written in a request line
UriText(u) ==
    (IF u.scheme = "" THEN <<>> ELSE <<u.scheme, "://", u.authority>>)
      \o <<u.path>>
      \o (IF u.query = "" THEN <<>> ELSE <<"?", u.query>>)

\* the lines of a header map, one per entry, in the order of the entries
HeaderText(headers) ==
    [j \in 1..(4 * Len(headers)) |->
        LET i == ((j - 1) \div 4) + 1
            r == (j - 1) % 4
        IN  IF r = 0 THEN headers[i][1]
            ELSE IF r = 1 THEN Colon
            ELSE IF r = 2 THEN headers[i][2]
            ELSE CRLF]

\* C32 (as claimed): the raw bytes of a built request are METHOD SP URI SP
\* HTTP/1.1 CRLF, one NAME: VALUE CRLF line per header in insertion order, CRLF
\* and the body, an unset method being GET and an unset URI "/"; those of a
\* built response are HTTP/1.1 SP status SP reason CRLF and the same layout, an
\* unset status being 200.
C32_RawBytesLayout ==
    /\ ("request" \in DOMAIN h1 /\ h1.stage = "Finished") =>
         h1.request.raw_bytes =
           <<IF h1.method = <<>> THEN "GET" ELSE h1.method[1], SP>>
             \o (IF h1.uri = <<>> THEN <<"/">> ELSE UriText(h1.uri[1]))
             \o <<VersionLine>> \o HeaderText(h1.headers) \o <<CRLF>> \o h1.body
    /\ ("response" \in DOMAIN h1 /\ h1.stage = "Finished" /\ h1.call = NoConstructor) =>
         h1.response.raw_bytes =
           <<HttpVersion,
             IF h1.builder.status = <<>> THEN "200" ELSE ToString(h1.builder.status[1]),
             SP,
             IF h1.builder.status = <<>> THEN "OK"
             ELSE IF canonical_reason(h1.builder.status[1]) = <<>> THEN ""
             ELSE canonical_reason(h1.builder.status[1])[1],
             CRLF>>
             \o HeaderText(h1.builder.headers) \o <<CRLF>> \o h1.builder.body

\* C33: a read of zero bytes ends from_stream with the connection-closed
\* error and no message, whatever was buffered before, and the buffer handed
\* to the parser always holds a terminator.
C33_ClosedBeforeTerminator ==
    /\ [](h1.handed # <<>> => memmem_find(h1.handed, CRLF2))
    /\ [](h1.err.text = "Connection closed" => h1.stage = "err" /\ h1.handed = <<>>)
    /\ [][(h1.stage = "reading" /\ h1.input = <<>> /\ h1'.reads = h1.reads + 1) =>
            /\ h1'.stage = "err"
            /\ h1'.err = StreamError(h1.kind, "Connection closed")
            /\ h1'.handed = <<>>
            /\ h1'.buffer = h1.buffer]_vars

\* the peer closes after three bytes of a terminator
C33_Witness ==
    /\ h1.err.text = "Connection closed"
    /\ h1.buffer = <<13, 10, 13>>

\* C39 (as claimed): a message whose header block, the first CRLF CRLF
\* included, is at most 32 KiB is never refused as too large, whatever body
\* bytes come after the terminator in the same read.
C39_LimitOnHeaderBlock ==
    h1.err.text = "Header too large" =>
        ~memmem_find(SubSeq(h1.buffer, 1, MAX_HEADER_SIZE), CRLF2)

(* ================== further PROXY protocol properties ================== *)

\* C34: on a header with the signature the version is checked before the
\* command: a high nibble of byte 13 other than 2 gives UnsupportedVersion
\* with that nibble, version 2 with a low nibble other than 0 and 1 gives
\* InvalidCommand with that nibble, and otherwise the family is the high
\* nibble and the transport the low nibble of byte 14.
C34_VersionThenCommand ==
    (PeekReturned /\ p2.n = HEADER_SIZE /\ SubSeq(p2.wire, 1, 12) = PROXY_SIGNATURE) =>
        LET hi == WireVersionCommand \div 16
            lo == WireVersionCommand % 16
        IN  IF hi # 2 THEN p2.result = P2ErrorOf("UnsupportedVersion", hi)
            ELSE IF lo \notin {0, 1} THEN p2.result = P2ErrorOf("InvalidCommand", lo)
            ELSE /\ p2.fixed.st = "header"
                 /\ p2.fixed.command = (IF lo = 0 THEN "Local" ELSE "Proxy")
                 /\ p2.fixed.address_family = (p2.wire[14] \div 16) * 16
                 /\ p2.fixed.protocol = p2.wire[14] % 16
                 /\ p2.result.st = "ok" =>
                      /\ p2.result.address_family = p2.fixed.address_family
                      /\ p2.result.protocol = p2.fixed.protocol

\* version 1 with command 5: the version is reported, not the command
C34_Witness ==
    /\ p2.n = HEADER_SIZE
    /\ WireVersionCommand = 21
    /\ p2.result = P2ErrorOf("UnsupportedVersion", 1)

\* what the call returns when everything the peer sends has arrived before the
\* peek
OneSegmentResult ==
    LET n == IF Len(p2.wire) < HEADER_SIZE THEN Len(p2.wire) ELSE HEADER_SIZE
        fixed == peeked_header(Take(p2.wire, n) \o [i \in 1..(HEADER_SIZE - n) |-> 0], n)
    IN  IF fixed.st = "err" THEN fixed
        ELSE IF Len(p2.wire) < total_len(fixed.addr_len) THEN P2Error("Io")
        ELSE framed_header(Take(p2.wire, total_len(fixed.addr_len)), fixed)

\* C37 (as claimed): what parse_proxy_protocol returns depends only on the
\* bytes the peer sends, not on how they are cut into segments or when they
\* arrive.
C37_SegmentationIndependent ==
    (p2.pc \in {"done", "relay"} /\ p2.result.err # "Io") =>
        p2.result = OneSegmentResult

\* C38: an InvalidSignature, UnsupportedVersion or InvalidCommand failure
\* leaves every byte on the connection, and bytes are read off it only after
\* the peeked 16 bytes carried the signature, version 2 and command 0 or 1.
C38_FailsWithoutConsuming ==
    /\ p2.result.err \in {"InvalidSignature", "UnsupportedVersion", "InvalidCommand"} =>
         p2.consumed = 0 /\ p2.pc = "done"
    /\ p2.consumed > 0 =>
         /\ p2.n = HEADER_SIZE
         /\ SubSeq(p2.wire, 1, 12) = PROXY_SIGNATURE
         /\ WireVersionCommand \in {32, 33}

\* a whole frame with an unknown command has arrived and is still unread
C38_Witness ==
    /\ p2.result = P2ErrorOf("InvalidCommand", 2)
    /\ p2.arrived = Len(p2.wire)
    /\ Len(p2.wire) > HEADER_SIZE
    /\ p2.consumed = 0

(* ======================= method selection, again ======================= *)

\* C36 (as claimed): the method in the method-selection response is one of
\* the methods the client offered, or FF; NoAuth is not selected for a client
\* that did not offer it, a client that offered no method included.
C36_SelectedWasOffered ==
    selected # <<>> =>
        /\ Len(written) >= 2
        /\ written[1] = V5
        /\ written[2] \in {offered[i] : i \in 1..Len(offered)} \cup {NoAcceptableMethods}

(* ================= UdpAssociate<Ready>::wait_until_closed ============== *)

\* the most bytes the client sends on the control stream during the wait
MaxControlBytes == 6

\* a read into the one-byte buffer ends the wait whatever it returns
on_read_always_breaks(n) == "Ok"

\* match self.stream.read(&mut [0]).await: Ok(0) => break Ok(()), Ok(_) => {}
on_read(n) == IF n = 0 THEN "Ok" ELSE "loop"

\* the control stream of an association whose reply has been written, and a
\* wait_until_closed call on it: sent counts the bytes the client has written,
\* pending those not yet read, n is what the last read returned (-1: no read
\* has returned, -2: an error)
WaitInit ==
    /\ NoSession
    /\ streams = <<>>
    /\ codec = <<>>
    /\ h1 = <<>>
    /\ p2 = <<>>
    /\ udp = [sent |-> 0, pending |-> 0, closed |-> FALSE, pc |-> "waiting",
              n |-> -1, discarded |-> 0, result |-> ""]

\* the client writes one more byte on the control stream
client_writes ==
    /\ ~udp.closed
    /\ udp.sent < MaxControlBytes
    /\ udp' = [udp EXCEPT !.sent = @ + 1, !.pending = @ + 1]
    /\ UNCHANGED beside_udp

\* the client closes the control stream
client_closes ==
    /\ ~udp.closed
    /\ udp' = [udp EXCEPT !.closed = TRUE]
    /\ UNCHANGED beside_udp

\* one turn of the loop: the read returns the next byte, or 0 at end of stream
wait_until_closed_read ==
    /\ udp.pc = "waiting"
    /\ udp.pending > 0 \/ udp.closed
    /\ LET n == IF udp.pending > 0 THEN 1 ELSE 0 IN
       udp' = IF on_read(n) = "Ok"
              THEN [udp EXCEPT !.n = n, !.pending = @ - n, !.pc = "returned",
                               !.result = "Ok"]
              ELSE [udp EXCEPT !.n = n, !.pending = @ - n, !.discarded = @ + n]
    /\ UNCHANGED beside_udp

\* Err(err) => break Err(err)
wait_until_closed_error ==
    /\ udp.pc = "waiting"
    /\ udp' = [udp EXCEPT !.n = -2, !.pc = "returned", !.result = "Err"]
    /\ UNCHANGED beside_udp

WaitNext ==
    \/ client_writes
    \/ client_closes
    \/ wait_until_closed_read
    \/ wait_until_closed_error

WaitSpec == WaitInit /\ [][WaitNext]_vars

\* the runtime polls the pending read whenever the stream is readable or closed
FairWaitSpec == WaitSpec /\ WF_vars(wait_until_closed_read)

\* C35: wait_until_closed returns Ok exactly when a read returns 0 bytes;
\* bytes the client sends meanwhile are read and dropped without ending the
\* wait, a read error ends it with that error, and once the client has closed
\* the stream the call returns.
C35_WaitUntilClosed ==
    /\ [](udp.result = "Ok" <=> udp.n = 0)
    /\ [](udp.result = "Err" <=> udp.n = -2)
    /\ [](udp.n = 0 => udp.closed /\ udp.pending = 0 /\ udp.discarded = udp.sent)
    /\ [](udp.pc = "returned" <=> udp.result # "")
    /\ [][udp'.pending < udp.pending =>
            /\ udp'.n = 1
            /\ udp'.pc = "waiting"
            /\ udp'.discarded = udp.discarded + 1]_vars
    /\ (udp.closed ~> udp.pc = "returned")

\* the client has sent three bytes and closed; all three were read and dropped
\* before the call returned Ok
C35_Witness ==
    /\ udp.result = "Ok"
    /\ udp.sent = 3
    /\ udp.discarded = 3

(* ===================== the Stream wrapper, again ======================= *)

\* C40: no operation on a wrapper finds the inner stream gone: a wrapper that
\* can still be operated on holds its stream, which is taken only by
\* into_inner and by drop, and both end the wrapper's life.
C40_NeverConsumedPanic ==
    \A w \in Wrappers :
        /\ streams[w].access # "Stream has been consumed"
        /\ streams[w].wrapper = "live" => streams[w].stream = "Some"
        /\ streams[w].stream = "None" => streams[w].wrapper = "gone"

\* a wrapper was read from, shut down and then taken apart by into_inner,
\* another was used and dropped
C40_Witness ==
    \E w, x \in Wrappers :
        /\ streams[w].access = "ok" /\ streams[w].explicit /\ streams[w].extracted
        /\ streams[w].stream = "None"
        /\ streams[x].access = "ok" /\ ~streams[x].extracted
        /\ streams[x].variant = "spawn" /\ streams[x].wrapper = "gone"

====
